---------------------------- MODULE Spec2Model ----------------------------
(***************************************************************************)
(* A model of app1a.py:                                                    *)
(*   - read_excel_data (the three layouts of the measure sheet),           *)
(*   - process_weights_targets_file: the setup-sheet header detector,      *)
(*     extract_number, the metric pass, the default pass and the retailer  *)
(*     pass over the exported weights/targets rows,                        *)
(*   - the step tracker (track_step, complete_phase),                      *)
(*   - the handlers start_automation and continue_automation and the       *)
(*     threads that run run_automation.                                    *)
(*                                                                         *)
(* Python values are records [t, s, m, e]:                                 *)
(*   t = "none"  None                                                      *)
(*   t = "nan"   a blank cell (NaN)                                        *)
(*   t = "str"   a string, s its characters (a sequence of 1-char strings) *)
(*   t = "num"   the number m / 10^e, kept normal (no trailing zero in m   *)
(*               while e > 0), so that equal numbers are equal records;    *)
(*               int and float are not told apart (85 == 85.0 in Python)   *)
(*   t = "bool"  True (m = 1) or False (m = 0)                             *)
(*                                                                         *)
(* Each part of the code has its own specification over the same           *)
(* variables; the variables a specification does not use stay idle.        *)
(***************************************************************************)
EXTENDS Integers, Sequences, FiniteSets, TLC

VARIABLES
    pc,            \* position in the function being run
    value,         \* extract_number: its argument
    result,        \* extract_number: what it returned
    temp_df,       \* header detector: the first rows of the setup sheet, read with header=None
    loop_i,        \* header detector: the loop's i, index (from 0) of the next row
    score,         \* header detector: score of the last row that was scored
    scored_row,    \* header detector: index of the last row that was scored, -1 when none
    matched_patterns, \* header detector: pattern names matched for that row
    best_score,    \* header detector
    best_row,      \* header detector: -1 stands for None
    header_row,    \* header detector
    found_header,  \* header detector: TRUE once line 1264 ran
    df_columns,    \* read_excel_data: df.columns after line 466
    df_rows,       \* read_excel_data: the rows of df
    data,          \* read_excel_data: the records returned
    returned,      \* read_excel_data: "pending", "data" or "None"
    export_file,   \* weights/targets: the export file as read, line 1148
    export_df,     \* weights/targets: the frame the passes write to
    setup_df,      \* weights/targets: the rows of the setup sheet
    has_retailer_col,  \* weights/targets: the setup sheet has a retailer column
    setup_mapping,     \* weights/targets: line 1390
    setup_mapping_all, \* weights/targets: line 1391
    retailer_file, \* weights/targets: a retailer sheet was given and exists
    retailer_df,   \* weights/targets: the rows of the retailer sheet
    retailer_mapping,  \* weights/targets: line 1682
    setup_columns,     \* column mapper: setup_df.columns after line 1277
    map_i,             \* column mapper: columns the loop of line 1312 has taken
    target_col,        \* column mapper: line 1306 (0 for None, else the column's position)
    metric_col,        \* column mapper: line 1307
    display_name_col,  \* column mapper: line 1308
    weight_col,        \* column mapper: line 1309
    retailer_col,      \* column mapper: line 1310
    retailer_columns,  \* retailer sheet: retailer_df.columns after line 1660
    retailer_name_col,     \* retailer sheet: line 1663
    retailer_target_col,   \* retailer sheet: line 1664
    retailer_weight_col,   \* retailer sheet: line 1665
    status_message,    \* automation_status["message"]
    wt_returned,       \* process_weights_targets_file: "pending", "True" or "False"
    output_written,    \* process_weights_targets_file: the output CSV was written
    runs,              \* the calls that returned, in order: function, input, output
    running,           \* automation_status["running"]
    continue_automation_flag,  \* the threading.Event of line 27: TRUE when set
    step_tracker,      \* step_tracker["phases"]: phase name -> Absent or [status, steps]
    thread,            \* the run_automation threads: position and local names of each
    response           \* the message of the last answer to POST /start_automation

numVars == <<value, result>>
hdrVars == <<temp_df, loop_i, score, scored_row, matched_patterns, best_score, best_row,
             header_row, found_header>>
readVars == <<df_columns, df_rows, data, returned>>
wtVars == <<export_file, export_df, setup_df, has_retailer_col, setup_mapping,
            setup_mapping_all, retailer_file, retailer_df, retailer_mapping>>
mapVars == <<setup_columns, map_i, target_col, metric_col, display_name_col, weight_col,
             retailer_col, retailer_columns, retailer_name_col, retailer_target_col,
             retailer_weight_col, status_message, wt_returned, output_written>>
runVars == <<runs>>
autoVars == <<running, continue_automation_flag, step_tracker, thread, response>>
vars == <<pc, numVars, hdrVars, readVars, wtVars, mapVars, runVars, autoVars>>

\* what each part of the program leaves alone
notNum == <<hdrVars, readVars, wtVars, mapVars, runVars, autoVars>>
notHdr == <<numVars, readVars, wtVars, mapVars, runVars, autoVars>>
notRead == <<numVars, hdrVars, wtVars, mapVars, runVars, autoVars>>
notWT == <<numVars, hdrVars, readVars, mapVars, runVars, autoVars>>
notMap == <<numVars, hdrVars, readVars, wtVars, runVars, autoVars>>
notAuto == <<numVars, hdrVars, readVars, wtVars, mapVars, runVars>>

---------------------------------------------------------------------------
(* Python values *)

NoneV == [t |-> "none", s |-> <<>>, m |-> 0, e |-> 0]
NaNV == [t |-> "nan", s |-> <<>>, m |-> 0, e |-> 0]
Str(chars) == [t |-> "str", s |-> chars, m |-> 0, e |-> 0]
Bool(b) == [t |-> "bool", s |-> <<>>, m |-> IF b THEN 1 ELSE 0, e |-> 0]

RECURSIVE NormDec(_, _)
NormDec(m, e) ==
    IF e > 0 /\ m % 10 = 0 THEN NormDec(m \div 10, e - 1) ELSE <<m, e>>

Num(m, e) ==
    LET n == NormDec(m, e) IN [t |-> "num", s |-> <<>>, m |-> n[1], e |-> n[2]]

\* pd.isna / pd.notna
isna(v) == v.t \in {"none", "nan"}
notna(v) == ~isna(v)

---------------------------------------------------------------------------
(* str methods, on sequences of characters *)

Digits == <<"0", "1", "2", "3", "4", "5", "6", "7", "8", "9">>
UpperLetters == <<"A", "B", "C", "D", "E", "F", "G", "H", "I", "J", "K", "L", "M",
                  "N", "O", "P", "Q", "R", "S", "T", "U", "V", "W", "X", "Y", "Z">>
LowerLetters == <<"a", "b", "c", "d", "e", "f", "g", "h", "i", "j", "k", "l", "m",
                  "n", "o", "p", "q", "r", "s", "t", "u", "v", "w", "x", "y", "z">>

IsDigit(c) == \E i \in 1..Len(Digits) : Digits[i] = c
DigitVal(c) == (CHOOSE i \in 1..Len(Digits) : Digits[i] = c) - 1
IsSpace(c) == c = " "

LowerChar(c) ==
    IF \E i \in 1..Len(UpperLetters) : UpperLetters[i] = c
    THEN LowerLetters[CHOOSE i \in 1..Len(UpperLetters) : UpperLetters[i] = c]
    ELSE c

UpperChar(c) ==
    IF \E i \in 1..Len(LowerLetters) : LowerLetters[i] = c
    THEN UpperLetters[CHOOSE i \in 1..Len(LowerLetters) : LowerLetters[i] = c]
    ELSE c

\* s.lower(), s.upper()
Lower(s) == [i \in 1..Len(s) |-> LowerChar(s[i])]
Upper(s) == [i \in 1..Len(s) |-> UpperChar(s[i])]

RECURSIVE LStrip(_)
LStrip(s) == IF s # <<>> /\ IsSpace(Head(s)) THEN LStrip(Tail(s)) ELSE s

RECURSIVE RStrip(_)
RStrip(s) ==
    IF s # <<>> /\ IsSpace(s[Len(s)]) THEN RStrip(SubSeq(s, 1, Len(s) - 1)) ELSE s

\* s.strip()
Strip(s) == RStrip(LStrip(s))

\* sub in s
Contains(s, sub) ==
    \E i \in 0..(Len(s) - Len(sub)) : SubSeq(s, i + 1, i + Len(sub)) = sub

\* c in s, for one character
HasChar(s, c) == \E i \in 1..Len(s) : s[i] = c

---------------------------------------------------------------------------
(* float(str) and the regular expression of extract_number *)

\* the value of an unsigned decimal numeral: digits with at most one "."
RECURSIVE DigitsValue(_)
DigitsValue(ds) ==
    IF ds = <<>> THEN 0 ELSE 10 * DigitsValue(SubSeq(ds, 1, Len(ds) - 1)) + DigitVal(ds[Len(ds)])

IsNumeral(s) ==
    /\ \A i \in 1..Len(s) : IsDigit(s[i]) \/ s[i] = "."
    /\ Cardinality({i \in 1..Len(s) : s[i] = "."}) <= 1
    /\ \E i \in 1..Len(s) : IsDigit(s[i])

NumeralValue(s, sign) ==
    LET dots == {i \in 1..Len(s) : s[i] = "."}
        frac == IF dots = {} THEN 0 ELSE Len(s) - (CHOOSE i \in dots : TRUE)
        ds == SelectSeq(s, IsDigit)
    IN Num(sign * DigitsValue(ds), frac)

\* float(s) for a string s: [ok |-> FALSE] stands for ValueError.
\* Python strips white space, takes one optional sign, then a decimal numeral
\* (exponents, underscores, "inf" and "nan" are outside the modelled alphabet).
ParseFloat(s) ==
    LET t == Strip(s)
        signed == t # <<>> /\ Head(t) \in {"-", "+"}
        body == IF signed THEN Tail(t) ELSE t
        sign == IF signed /\ Head(t) = "-" THEN -1 ELSE 1
    IN IF IsNumeral(body)
       THEN [ok |-> TRUE, val |-> NumeralValue(body, sign)]
       ELSE [ok |-> FALSE, val |-> NoneV]

\* re.search(r'([\d.]+)', s).group(1): the first maximal run of digits and
\* dots, <<>> when there is no match
InRun(c) == IsDigit(c) \/ c = "."

RegexNumberRun(s) ==
    LET starts == {i \in 1..Len(s) : InRun(s[i])}
    IN IF starts = {} THEN <<>>
       ELSE LET i == CHOOSE a \in starts : \A b \in starts : a <= b
                ends == {j \in i..Len(s) : \A k \in i..j : InRun(s[k])}
                j == CHOOSE a \in ends : \A b \in ends : a >= b
            IN SubSeq(s, i, j)

---------------------------------------------------------------------------
(* extract_number, lines 1349-1385 *)

\* a variant: a percentage string scaled to a fraction ("85%" -> 0.85)
extract_number_fraction(v) ==
    IF isna(v) \/ v = Str(<<>>) THEN NoneV
    ELSE IF v.t = "str" /\ HasChar(Strip(v.s), "%") /\ RegexNumberRun(Strip(v.s)) # <<>>
              /\ ParseFloat(RegexNumberRun(Strip(v.s))).ok
         THEN LET n == ParseFloat(RegexNumberRun(Strip(v.s))).val IN Num(n.m, n.e + 2)
    ELSE IF v.t = "str" /\ ~HasChar(Strip(v.s), "%")
         THEN (IF ParseFloat(Strip(v.s)).ok THEN ParseFloat(Strip(v.s)).val ELSE NoneV)
    ELSE v

extract_number(v) ==
    IF isna(v) \/ v = Str(<<>>) THEN NoneV
    ELSE IF v.t = "str"
    THEN LET value_str == Strip(v.s) IN
         IF HasChar(value_str, "%")
         THEN LET match == RegexNumberRun(value_str) IN
              IF match # <<>>
              THEN (IF ParseFloat(match).ok
                    THEN ParseFloat(match).val
                    ELSE v)      \* float() raised: except Exception: return value
              ELSE v             \* no match: falls through to the last return value
         ELSE (IF ParseFloat(value_str).ok
               THEN ParseFloat(value_str).val
               ELSE NoneV)       \* the inner except: return None
    ELSE v                       \* int, float, bool: returned as it is

---------------------------------------------------------------------------
(* Specification SpecNum: extract_number applied to one value *)

MaxStrLen == 4

NumChars == {"0", "5", ".", "%", " ", "-", "a"}

NumStrings == UNION {[1..k -> NumChars] : k \in 0..MaxStrLen}

NumNumbers == {Num(0, 0), Num(1, 0), Num(5, 1), Num(85, 2), Num(1, 2), Num(50, 0),
               Num(85, 0), Num(-5, 0), Num(15, 1)}

NumInputs == {Str(s) : s \in NumStrings} \cup NumNumbers \cup {NoneV, NaNV, Bool(TRUE)}

IdleNum == value = NoneV /\ result = NoneV

IdleHdr ==
    /\ temp_df = <<>>
    /\ loop_i = 0
    /\ score = 0
    /\ scored_row = -1
    /\ matched_patterns = <<>>
    /\ best_score = 0
    /\ best_row = -1
    /\ header_row = 0
    /\ found_header = FALSE

IdleRead ==
    /\ df_columns = <<>>
    /\ df_rows = <<>>
    /\ data = <<>>
    /\ returned = "pending"

IdleWT ==
    /\ export_file = <<>>
    /\ export_df = <<>>
    /\ setup_df = <<>>
    /\ has_retailer_col = FALSE
    /\ setup_mapping = <<>>
    /\ setup_mapping_all = <<>>
    /\ retailer_file = FALSE
    /\ retailer_df = <<>>
    /\ retailer_mapping = <<>>

NoMessage == [kind |-> "none", columns |-> <<>>]

IdleMap ==
    /\ setup_columns = <<>>
    /\ map_i = 0
    /\ target_col = 0
    /\ metric_col = 0
    /\ display_name_col = 0
    /\ weight_col = 0
    /\ retailer_col = 0
    /\ retailer_columns = <<>>
    /\ retailer_name_col = 0
    /\ retailer_target_col = 0
    /\ retailer_weight_col = 0
    /\ status_message = NoMessage
    /\ wt_returned = "pending"
    /\ output_written = FALSE

IdleRuns == runs = <<>>

\* the phases the model follows in step_tracker["phases"]
PhaseNames == {"Initialization", "Phase 1", "Phase 2", "Phase 4", "Finalization"}

\* a phase name that is no key of step_tracker["phases"]
Absent == [status |-> "absent", steps |-> {}]

\* lines 40-46 and 57: "phases": {}
NoPhases == [p \in PhaseNames |-> Absent]

\* the threads POST /start_automation can start in one behaviour of the model
MaxThreads == 2

Threads == 1..MaxThreads

\* a thread that was not started: no position, no local names
\* at: the thread's position; scorecard_type: form_data['scorecard_type'];
\* polls: the tests of line 4741 that found the flag clear; continued: the flag
\* was set while the thread was in the wait; export_result, downloaded_file,
\* file_exists, process_result, output_exists: what lines 5771-5911 got;
\* import_called: line 5927 ran; tracked: the phases the thread passed to
\* track_step; executed: the later phases the thread entered; exit: the way
\* the thread left run_automation
NotStarted ==
    [at |-> "none", scorecard_type |-> "none", polls |-> 0, continued |-> FALSE,
     export_result |-> "none", downloaded_file |-> "none", file_exists |-> "none",
     process_result |-> "none", output_exists |-> "none", import_called |-> FALSE,
     tracked |-> {}, executed |-> {}, exit |-> "none"]

\* lines 24-27 and 40-46: the module's globals after import
IdleAuto ==
    /\ running = FALSE
    /\ continue_automation_flag = FALSE
    /\ step_tracker = NoPhases
    /\ thread = [t \in Threads |-> NotStarted]
    /\ response = "none"

InitNum ==
    /\ pc = "num_call"
    /\ value \in NumInputs
    /\ result = NoneV
    /\ IdleHdr
    /\ IdleRead
    /\ IdleWT
    /\ IdleMap
    /\ IdleRuns
    /\ IdleAuto

ExtractNumber ==
    /\ pc = "num_call"
    /\ result' = extract_number(value)
    /\ pc' = "num_done"
    /\ UNCHANGED <<value, notNum>>

NextNum == ExtractNumber

SpecNum == InitNum /\ [][NextNum]_vars

---------------------------------------------------------------------------
(* C8 *)

\* "<number>%": an unsigned decimal numeral followed by "%", white space
\* around it allowed
IsPercentString(v) ==
    /\ v.t = "str"
    /\ LET t == Strip(v.s) IN
       /\ Len(t) >= 2
       /\ t[Len(t)] = "%"
       /\ IsNumeral(SubSeq(t, 1, Len(t) - 1))

PercentNumber(v) ==
    LET t == Strip(v.s) IN NumeralValue(SubSeq(t, 1, Len(t) - 1), 1)

C8_WitnessDecimal ==
    /\ pc = "num_done"
    /\ value = Num(5, 1)
    /\ result = Num(5, 1)

---------------------------------------------------------------------------
(* The setup-sheet header detector of process_weights_targets_file,        *)
(* lines 1187-1269                                                         *)

max_rows_to_check == 30
DefaultHeaderRow == 2
MinHeaderScore == 5

kw_target == <<"t", "a", "r", "g", "e", "t">>
kw_weight == <<"w", "e", "i", "g", "h", "t">>
kw_weig == <<"w", "e", "i", "g">>
kw_metric_name == <<"m", "e", "t", "r", "i", "c", " ", "n", "a", "m", "e">>
kw_measure_name == <<"m", "e", "a", "s", "u", "r", "e", " ", "n", "a", "m", "e">>
kw_display_name == <<"d", "i", "s", "p", "l", "a", "y", " ", "n", "a", "m", "e">>
kw_retailer == <<"r", "e", "t", "a", "i", "l", "e", "r">>
kw_measure_group == <<"m", "e", "a", "s", "u", "r", "e", " ", "g", "r", "o", "u", "p">>
kw_grouping_name == <<"g", "r", "o", "u", "p", "i", "n", "g", " ", "n", "a", "m", "e">>
kw_selection == <<"s", "e", "l", "e", "c", "t", "i", "o", "n">>
kw_add_measure == <<"a", "d", "d", " ", "m", "e", "a", "s", "u", "r", "e">>

\* the dict of lines 1205-1213, in its insertion order
column_patterns == <<
    [name |-> "target", keywords |-> <<kw_target>>, weight |-> 3, max_length |-> 30],
    [name |-> "weight", keywords |-> <<kw_weight, kw_weig>>, weight |-> 3, max_length |-> 30],
    [name |-> "metric_name", keywords |-> <<kw_metric_name, kw_measure_name>>, weight |-> 2,
     max_length |-> 30],
    [name |-> "display_name", keywords |-> <<kw_display_name>>, weight |-> 2, max_length |-> 30],
    [name |-> "retailer", keywords |-> <<kw_retailer>>, weight |-> 1, max_length |-> 30],
    [name |-> "measure_group", keywords |-> <<kw_measure_group, kw_grouping_name>>, weight |-> 1,
     max_length |-> 30],
    [name |-> "selection", keywords |-> <<kw_selection, kw_add_measure>>, weight |-> 1,
     max_length |-> 50] >>

\* str(val)
RECURSIVE NatStr(_)
NatStr(n) ==
    IF n < 10 THEN <<Digits[n + 1]>> ELSE NatStr(n \div 10) \o <<Digits[(n % 10) + 1]>>

RECURSIVE Pow10(_)
Pow10(k) == IF k = 0 THEN 1 ELSE 10 * Pow10(k - 1)

RECURSIVE ZeroPad(_, _)
ZeroPad(ds, k) == IF Len(ds) >= k THEN ds ELSE ZeroPad(<<"0">> \o ds, k)

NumStr(v) ==
    LET a == IF v.m < 0 THEN -v.m ELSE v.m
        sign == IF v.m < 0 THEN <<"-">> ELSE <<>>
    IN IF v.e = 0 THEN sign \o NatStr(a)
       ELSE sign \o NatStr(a \div Pow10(v.e)) \o <<".">> \o ZeroPad(NatStr(a % Pow10(v.e)), v.e)

PyStr(v) ==
    CASE v.t = "str" -> v.s
      [] v.t = "num" -> NumStr(v)
      [] v.t = "bool" -> (IF v.m = 1 THEN <<"T", "r", "u", "e">> ELSE <<"F", "a", "l", "s", "e">>)
      [] v.t = "nan" -> <<"n", "a", "n">>
      [] v.t = "none" -> <<"N", "o", "n", "e">>

\* lines 1217-1218
row_values(row) ==
    [j \in 1..Len(row) |-> IF notna(row[j]) THEN Strip(PyStr(row[j])) ELSE <<>>]
row_lower(row) ==
    [j \in 1..Len(row) |-> IF notna(row[j]) THEN Lower(Strip(PyStr(row[j]))) ELSE <<>>]

IsNonEmpty(v) == v # <<>>
IsLong(v) == Len(v) > 50
IsShort(v) == Len(v) < 30 /\ v # <<>>

\* lines 1221, 1228, 1246
non_empty_values(rv) == SelectSeq(rv, IsNonEmpty)
long_values(rv) == SelectSeq(rv, IsLong)
short_values(rv) == SelectSeq(rv, IsShort)

\* a variant: the check of long cells left out
SkipsSparseOnly(row) == Len(non_empty_values(row_values(row))) < 3

\* lines 1224 and 1229: the conditions of the two continue statements
IsSkipped(row) ==
    Len(non_empty_values(row_values(row))) < 3 \/ Len(long_values(row_values(row))) > 2

\* lines 1238-1243 for one val: the keyword loop ends at the first keyword found
CellMatches(val, p) ==
    /\ Len(val) <= p.max_length
    /\ \E k \in 1..Len(p.keywords) : Contains(val, p.keywords[k])

\* lines 1237-1243: how often the weight of pattern p is added for one row.
\* The break of line 1243 leaves the keyword loop only, so the loop over the
\* cells goes on and every matching cell adds the weight again.
PatternHits(p, rl) ==
    Cardinality({j \in 1..Len(rl) : CellMatches(rl[j], p)})

\* lines 1236-1243
RECURSIVE KeywordScore(_, _)
KeywordScore(ps, rl) ==
    IF ps = <<>> THEN 0
    ELSE Head(ps).weight * PatternHits(Head(ps), rl) + KeywordScore(Tail(ps), rl)

RECURSIVE MatchedPatterns(_, _)
MatchedPatterns(ps, rl) ==
    IF ps = <<>> THEN <<>>
    ELSE [k \in 1..PatternHits(Head(ps), rl) |-> Head(ps).name] \o MatchedPatterns(Tail(ps), rl)

\* lines 1246-1248
ShortBonus(rv) == IF Len(short_values(rv)) >= 4 THEN 2 ELSE 0

\* lines 1251-1253: empty_ratio > 0.7
EmptyPenalty(rv) ==
    LET empty == Len(rv) - Len(non_empty_values(rv))
        n == IF Len(rv) > 1 THEN Len(rv) ELSE 1
    IN IF 10 * empty > 7 * n THEN 5 ELSE 0

\* lines 1233-1253
RowScore(row) ==
    KeywordScore(column_patterns, row_lower(row)) + ShortBonus(row_values(row))
        - EmptyPenalty(row_values(row))

\* a variant: a later row with the same score replaces the best row
BeatsBestOrTies(sc, best) == sc >= best

\* line 1256
BeatsBest(sc, best) == sc > best

\* the loop reads temp_df.iloc[i] for i in range(min(max_rows_to_check, len(temp_df)))
LoopEnd == IF Len(temp_df) < max_rows_to_check THEN Len(temp_df) ELSE max_rows_to_check

\* line 1262
ConfidentMatch == best_row # -1 /\ best_score >= MinHeaderScore

\* lines 1224-1230: continue
SkipRow ==
    /\ pc = "hdr_loop"
    /\ loop_i < LoopEnd
    /\ IsSkipped(temp_df[loop_i + 1])
    /\ loop_i' = loop_i + 1
    /\ UNCHANGED <<pc, temp_df, score, scored_row, matched_patterns, best_score, best_row,
                   header_row, found_header, notHdr>>

\* lines 1232-1259
ScoreRow ==
    /\ pc = "hdr_loop"
    /\ loop_i < LoopEnd
    /\ ~IsSkipped(temp_df[loop_i + 1])
    /\ LET sc == RowScore(temp_df[loop_i + 1]) IN
        /\ score' = sc
        /\ matched_patterns' = MatchedPatterns(column_patterns, row_lower(temp_df[loop_i + 1]))
        /\ scored_row' = loop_i
        /\ best_score' = IF BeatsBest(sc, best_score) THEN sc ELSE best_score
        /\ best_row' = IF BeatsBest(sc, best_score) THEN loop_i ELSE best_row
    /\ loop_i' = loop_i + 1
    /\ UNCHANGED <<pc, temp_df, header_row, found_header, notHdr>>

\* lines 1262-1266
HeaderFound ==
    /\ pc = "hdr_loop"
    /\ loop_i = LoopEnd
    /\ ConfidentMatch
    /\ header_row' = best_row
    /\ found_header' = TRUE
    /\ pc' = "hdr_done"
    /\ UNCHANGED <<temp_df, loop_i, score, scored_row, matched_patterns, best_score, best_row,
                   notHdr>>

\* lines 1267-1269, when temp_df has a row of index header_row to print
HeaderDefault ==
    /\ pc = "hdr_loop"
    /\ loop_i = LoopEnd
    /\ ~ConfidentMatch
    /\ header_row < Len(temp_df)
    /\ pc' = "hdr_done"
    /\ UNCHANGED <<hdrVars, notHdr>>

\* lines 1267-1269, when temp_df.iloc[header_row] is out of bounds: IndexError,
\* caught at line 2083, and the function returns False at line 2101
HeaderDefaultRaises ==
    /\ pc = "hdr_loop"
    /\ loop_i = LoopEnd
    /\ ~ConfidentMatch
    /\ header_row >= Len(temp_df)
    /\ pc' = "hdr_failed"
    /\ UNCHANGED <<hdrVars, notHdr>>

---------------------------------------------------------------------------
(* Specification SpecHdr: the header detector on a bounded family of sheets *)

MaxRows == 3
MinCols == 4
PadRows == 28

W_Target == <<"T", "a", "r", "g", "e", "t">>
W_target == <<"t", "a", "r", "g", "e", "t">>
W_TARGET_sp == <<"T", "A", "R", "G", "E", "T", " ">>
W_MetricWeight == <<"M", "e", "t", "r", "i", "c", " ", "W", "e", "i", "g", "h", "t">>
W_MeasureWeights == <<"M", "e", "a", "s", "u", "r", "e", " ", "w", "e", "i", "g", "h", "t", "s">>
W_MetricName == <<"M", "e", "t", "r", "i", "c", " ", "N", "a", "m", "e">>
W_Retailer == <<"R", "e", "t", "a", "i", "l", "e", "r">>
W_InStock == <<"I", "n", " ", "S", "t", "o", "c", "k">>
W_x == <<"x">>
W_TargetSelection == <<"t", "a", "r", "g", "e", "t", " ", "s", "e", "l", "e", "c", "t", "i", "o", "n">>

Filler(n) == [k \in 1..n |-> "z"]

\* a cell of 51 + Len(w) characters and one of 25 + Len(w)
ProseCell(w) == Str(Filler(51) \o w)
MediumCell(w) == Str(Filler(25) \o w)

RowPool == {
    \* a header: three labelled cells
    <<Str(W_Target), Str(W_MetricWeight), Str(W_MetricName)>>,
    \* a header with four labelled cells
    <<Str(W_MetricName), Str(W_TARGET_sp), Str(W_MeasureWeights), Str(W_Retailer)>>,
    \* a data row that repeats a keyword
    <<Str(W_target), Str(W_target), Str(W_target), Str(W_x)>>,
    \* instructions: three long cells, then keywords
    <<ProseCell(kw_target), ProseCell(kw_weight), ProseCell(kw_metric_name),
      Str(W_Target), Str(W_MetricWeight), Str(W_MetricName)>>,
    \* two labelled cells only
    <<Str(W_Target), Str(W_MetricWeight)>>,
    \* a blank row
    <<>>,
    \* a data row
    <<Str(W_InStock), Num(85, 0), Num(5, 1), Str(W_x)>>,
    \* a cell of 41 characters: too long for "target", short enough for "selection"
    <<MediumCell(W_TargetSelection), Str(W_x), Str(W_x)>>,
    \* a header in a sheet of eleven columns
    <<Str(W_Target), Str(W_MetricWeight), Str(W_MetricName), NaNV, NaNV, NaNV, NaNV, NaNV,
      NaNV, NaNV, NaNV>> }

SheetTails == UNION {[1..k -> RowPool] : k \in 0..MaxRows}

MaxOf(S) == CHOOSE a \in S : \A b \in S : a >= b

\* the sheet as pandas reads it: every row as wide as the widest, blanks as NaN
PadRow(row, w) == [j \in 1..w |-> IF j <= Len(row) THEN row[j] ELSE NaNV]
Rectangular(rows) ==
    LET w == MaxOf({MinCols} \cup {Len(rows[k]) : k \in 1..Len(rows)})
    IN [k \in 1..Len(rows) |-> PadRow(rows[k], w)]

\* pad blank rows on top of the sheet
Sheet(pad, tail) == Rectangular([k \in 1..pad |-> <<>>] \o tail)

\* pd.read_csv / pd.read_excel (header=None, nrows=max_rows_to_check), lines 1191-1194
ReadRows(sheet, nrows) == SubSeq(sheet, 1, IF Len(sheet) < nrows THEN Len(sheet) ELSE nrows)

InitHdr ==
    /\ pc = "hdr_loop"
    /\ \E pad \in {0, PadRows}, tail \in SheetTails :
           temp_df = ReadRows(Sheet(pad, tail), max_rows_to_check)
    /\ loop_i = 0
    /\ score = 0
    /\ scored_row = -1
    /\ matched_patterns = <<>>
    /\ best_score = 0
    /\ best_row = -1
    /\ header_row = DefaultHeaderRow
    /\ found_header = FALSE
    /\ IdleNum
    /\ IdleRead
    /\ IdleWT
    /\ IdleMap
    /\ IdleRuns
    /\ IdleAuto

NextHdr == SkipRow \/ ScoreRow \/ HeaderFound \/ HeaderDefault \/ HeaderDefaultRaises

SpecHdr == InitHdr /\ [][NextHdr]_vars

---------------------------------------------------------------------------
(* C3 - C7: the header detector *)

HdrEnded == pc \in {"hdr_done", "hdr_failed"}
RowAt(k) == temp_df[k + 1]
RowIndexes == 0..(Len(temp_df) - 1)

\* the text of a cell as the detector sees it
CellText(v) == IF notna(v) THEN Strip(PyStr(v)) ELSE <<>>
NonEmptyCount(row) == Cardinality({j \in 1..Len(row) : CellText(row[j]) # <<>>})
LongCount(row) == Cardinality({j \in 1..Len(row) : Len(CellText(row[j])) > 50})

\* does some cell of the row, short enough, contain a keyword of group p
GroupMatchesRow(p, row) ==
    \E j \in 1..Len(row) :
        /\ Len(CellText(row[j])) <= p.max_length
        /\ \E k \in 1..Len(p.keywords) : Contains(Lower(CellText(row[j])), p.keywords[k])

RECURSIVE OncePerGroupScore(_, _)
OncePerGroupScore(ps, row) ==
    IF ps = <<>> THEN 0
    ELSE (IF GroupMatchesRow(Head(ps), row) THEN Head(ps).weight ELSE 0)
         + OncePerGroupScore(Tail(ps), row)

\* C3: the keyword score of a scored row adds the weight of each keyword
\* group exactly once when some cell matches the group, however many cells
\* match it (the bonus and the penalty come on top).
C3_GroupWeightAddedOnce ==
    scored_row >= 0 =>
        score = OncePerGroupScore(column_patterns, RowAt(scored_row))
                + ShortBonus(row_values(RowAt(scored_row)))
                - EmptyPenalty(row_values(RowAt(scored_row)))

\* C4: the header row is the row with the highest score among the rows read
\* (the lowest index on ties) when that score is >= 5, and the default
\* index 2 when no candidate row reaches 5.
C4_HighestScoreOrDefault ==
    HdrEnded =>
        LET cand == {k \in RowIndexes : ~IsSkipped(RowAt(k))}
            top == {k \in cand : \A j \in cand : RowScore(RowAt(k)) >= RowScore(RowAt(j))}
        IN IF \E k \in top : RowScore(RowAt(k)) >= 5
           THEN /\ found_header
                /\ header_row \in top
                /\ \A k \in top : header_row <= k
           ELSE /\ ~found_header
                /\ header_row = 2

\* two rows tie on the highest score and the first of them is the header
C4_Witness ==
    /\ pc = "hdr_done"
    /\ found_header
    /\ \E k \in RowIndexes :
           /\ k > header_row
           /\ ~IsSkipped(RowAt(k))
           /\ RowScore(RowAt(k)) = best_score

\* an unambiguous header row: separate cells of at most 30 characters
\* labelled target, weight and metric/measure name, in a row that is neither
\* mostly blank nor a row of prose
IsClearHeader(row) ==
    /\ \E a, b, c \in 1..Len(row) :
           /\ a # b /\ a # c /\ b # c
           /\ Len(CellText(row[a])) <= 30
           /\ Len(CellText(row[b])) <= 30
           /\ Len(CellText(row[c])) <= 30
           /\ Contains(Lower(CellText(row[a])), kw_target)
           /\ Contains(Lower(CellText(row[b])), kw_weight)
           /\ \/ Contains(Lower(CellText(row[c])), kw_metric_name)
              \/ Contains(Lower(CellText(row[c])), kw_measure_name)
    /\ LongCount(row) <= 2
    /\ 10 * (Len(row) - NonEmptyCount(row)) <= 7 * Len(row)

\* C5: when exactly one of the rows read is an unambiguous header row, the
\* detector selects that row, whatever the other rows hold.
C5_ClearHeaderSelected ==
    HdrEnded =>
        \A k \in RowIndexes :
            (/\ IsClearHeader(RowAt(k))
             /\ \A j \in RowIndexes : IsClearHeader(RowAt(j)) => j = k)
            => (found_header /\ header_row = k)

\* C6 as stated: the header row is never a row with fewer than 3 non-empty
\* cells nor a row with more than 2 cells longer than 50 characters.
C6_HeaderNeverSparseOrProse ==
    pc = "hdr_done" =>
        /\ NonEmptyCount(RowAt(header_row)) >= 3
        /\ LongCount(RowAt(header_row)) <= 2

\* C6 as amended: a header row chosen by its score is never a row with fewer
\* than 3 non-empty cells nor a row with more than 2 cells longer than 50
\* characters; such a row is the header only as the default row 2.
C6_ScoredHeaderNeverSparseOrProse ==
    found_header =>
        /\ NonEmptyCount(RowAt(header_row)) >= 3
        /\ LongCount(RowAt(header_row)) <= 2

\* a row of prose or a sparse row with a score of 5 or more stands before the
\* header that was chosen
C6_Witness ==
    /\ pc = "hdr_done"
    /\ found_header
    /\ \E k \in RowIndexes :
           /\ k < header_row
           /\ (NonEmptyCount(RowAt(k)) < 3 \/ LongCount(RowAt(k)) > 2)
           /\ RowScore(RowAt(k)) >= best_score

\* C7: header detection never fails: without a confident match the function
\* goes on with the default header row.
C7_DetectionNeverFails == pc # "hdr_failed"

---------------------------------------------------------------------------
(* read_excel_data, lines 465-610, from the DataFrame df that was read *)

c_GroupingName == <<"G", "r", "o", "u", "p", "i", "n", "g", " ", "N", "a", "m", "e">>
c_ClientName == <<"C", "l", "i", "e", "n", "t", " ", "N", "a", "m", "e", " ", "o", "f", " ", "M", "e", "t", "r", "i", "c">>
c_InternalName2 == <<"I", "n", "t", "e", "r", "n", "a", "l", " ", " ", "M", "e", "a", "s", "u", "r", "e", "s", " ", "N", "a", "m", "e">>
c_Notes == <<"N", "o", "t", "e", "s">>
c_MeasureOrder == <<"M", "e", "a", "s", "u", "r", "e", " ", "O", "r", "d", "e", "r">>
c_Selection == <<"S", "c", "o", "r", "e", "c", "a", "r", "d", " ", "M", "e", "a", "s", "u", "r", "e", " ", "S", "e", "l", "e", "c", "t", "i", "o", "n", "/", "A", "d", "d", " ", "M", "e", "a", "s", "u", "r", "e">>
c_MeasureGroup == <<"M", "e", "a", "s", "u", "r", "e", " ", "G", "r", "o", "u", "p">>
c_MeasureName == <<"M", "e", "a", "s", "u", "r", "e", " ", "N", "a", "m", "e">>
c_DisplayName == <<"D", "i", "s", "p", "l", "a", "y", " ", "N", "a", "m", "e">>
c_Definitions == <<"D", "e", "f", "i", "n", "i", "t", "i", "o", "n", "s">>
c_StandardKPIs == <<"S", "t", "a", "n", "d", "a", "r", "d", " ", "K", "P", "I", "s">>
c_MeasureDisplayName == <<"M", "e", "a", "s", "u", "r", "e", " ", "D", "i", "s", "p", "l", "a", "y", " ", "N", "a", "m", "e">>
c_Definition == <<"D", "e", "f", "i", "n", "i", "t", "i", "o", "n">>
c_Unnamed0 == <<"U", "n", "n", "a", "m", "e", "d", ":", " ", "0">>
c_Col == <<"C", "o", "l">>
s_Internal == <<"I", "n", "t", "e", "r", "n", "a", "l">>
s_Measures == <<"M", "e", "a", "s", "u", "r", "e", "s">>
s_Name == <<"N", "a", "m", "e">>
s_true == <<"t", "r", "u", "e">>
s_false == <<"f", "a", "l", "s", "e">>
s_nan == <<"n", "a", "n">>
s_ref == <<"#", "r", "e", "f", "!">>
s_unnamed == <<"u", "n", "n", "a", "m", "e", "d">>
v_A_sp == <<"A", " ">>
v_sp == <<" ">>
v_sp_nan == <<" ", "n", "a", "n">>
v_TRUE == <<"T", "R", "U", "E">>
v_true_sp == <<"t", "r", "u", "e", " ">>
v_False == <<"F", "a", "l", "s", "e">>
v_yes == <<"y", "e", "s">>
v_k == <<"k">>
v_d == <<"d">>
v_abc == <<"a", "b", "c">>
v_REF == <<"#", "R", "E", "F", "!">>

\* str(x).strip() if pd.notna(x) else ""
StrOrEmpty(v) == IF notna(v) THEN Strip(PyStr(v)) ELSE <<>>

\* name in df.columns, and row[name]
HasCol(cols, name) == \E j \in 1..Len(cols) : cols[j] = name
Cell(cols, row, name) == row[CHOOSE j \in 1..Len(cols) : cols[j] = name]

\* not x or x == "nan": the test of the "Skip empty rows" statements
IsBlankName(sv) == sv = <<>> \/ sv = s_nan

AllDigits(s) == s # <<>> /\ \A j \in 1..Len(s) : IsDigit(s[j])

\* int(x): [ok |-> FALSE] stands for ValueError / TypeError
PyInt(v) ==
    CASE v.t = "num" ->
            [ok |-> TRUE,
             val |-> IF v.m < 0 THEN -((-v.m) \div Pow10(v.e)) ELSE v.m \div Pow10(v.e)]
      [] v.t = "bool" -> [ok |-> TRUE, val |-> v.m]
      [] v.t = "str" ->
            LET t == Strip(v.s)
                signed == t # <<>> /\ Head(t) \in {"-", "+"}
                body == IF signed THEN Tail(t) ELSE t
            IN IF AllDigits(body)
               THEN [ok |-> TRUE,
                     val |-> IF signed /\ Head(t) = "-" THEN -DigitsValue(body)
                             ELSE DigitsValue(body)]
               ELSE [ok |-> FALSE, val |-> 0]
      [] OTHER -> [ok |-> FALSE, val |-> 0]

\* what one pass of a row loop does: raises, continues, or appends a record
RowError == [kind |-> "error", rec |-> <<>>]
RowSkip == [kind |-> "skip", rec |-> <<>>]
RowRecord(r) == [kind |-> "record", rec |-> r]

IsRecord(x) == x.kind = "record"

\* the value returned after the loop: None when a pass raised (lines 606-610)
Returned(passes) ==
    IF \E k \in 1..Len(passes) : passes[k].kind = "error" THEN "None" ELSE "data"

\* the records added to a list that is not emptied when the call begins
AppendedToPrevious(passes) ==
    IF \E k \in 1..Len(passes) : passes[k].kind = "error" THEN <<>>
    ELSE LET kept == SelectSeq(passes, IsRecord) IN
         data \o [k \in 1..Len(kept) |-> kept[k].rec]

\* data = [] (lines 482, 536, 569) and the records the loop appends to it
Appended(passes) ==
    IF \E k \in 1..Len(passes) : passes[k].kind = "error" THEN <<>>
    ELSE LET kept == SelectSeq(passes, IsRecord) IN [k \in 1..Len(kept) |-> kept[k].rec]

\* lines 489-492: the first column whose name holds 'Internal', 'Measures', 'Name'
internal_col(cols) ==
    LET hits == {j \in 1..Len(cols) : /\ Contains(cols[j], s_Internal)
                                      /\ Contains(cols[j], s_Measures)
                                      /\ Contains(cols[j], s_Name)}
    IN IF hits = {} THEN 0 ELSE CHOOSE a \in hits : \A b \in hits : a <= b

\* lines 483-514, one row of the grouping layout; idx is the row's index label.
\* row['...'] of a column that is missing raises KeyError: pd.notna(row.get(col, ''))
\* is True for the default ''.
GroupingRow(cols, row, idx) ==
    IF ~HasCol(cols, c_ClientName) \/ ~HasCol(cols, c_Notes) \/ ~HasCol(cols, c_MeasureOrder)
    THEN RowError
    ELSE LET grouping_name == StrOrEmpty(Cell(cols, row, c_GroupingName))
             client_name == StrOrEmpty(Cell(cols, row, c_ClientName))
             ic == internal_col(cols)
             internal_name == IF ic # 0 THEN StrOrEmpty(row[ic]) ELSE <<>>
             notes == StrOrEmpty(Cell(cols, row, c_Notes))
             oc == Cell(cols, row, c_MeasureOrder)
         IN IF notna(oc) /\ ~PyInt(oc).ok THEN RowError
            ELSE IF IsBlankName(grouping_name) THEN RowSkip
            ELSE RowRecord([measure_group |-> grouping_name,
                            standard_kpis |-> internal_name,
                            measure_display_name |->
                                IF ~IsBlankName(client_name) THEN client_name
                                ELSE internal_name,
                            definition |-> notes,
                            order |-> IF notna(oc) THEN PyInt(oc).val ELSE idx + 1])

\* the dtype pandas gives a column it read
ColumnDtype(col) ==
    IF col = <<>> THEN "object"
    ELSE IF \A k \in 1..Len(col) : col[k].t = "bool" THEN "bool"
    ELSE IF \A k \in 1..Len(col) : col[k].t \in {"num", "nan"} THEN "number"
    ELSE "object"

\* Series.fillna(False), lines 525 and 531
FillNaFalse(col) == [k \in 1..Len(col) |-> IF isna(col[k]) THEN Bool(FALSE) ELSE col[k]]

\* the dtype after line 525: False does not fit a column of numbers, which
\* becomes object when a blank was filled; a column of booleans and blanks
\* was object before (pandas may downcast it to bool: the values are the same)
DtypeAfterFill(col) ==
    IF ColumnDtype(col) = "number" /\ \E k \in 1..Len(col) : isna(col[k])
    THEN "object"
    ELSE ColumnDtype(col)

\* line 530: .map({'true': True, 'false': False, '': False, 'nan': False})
SelectionMap(sv) ==
    IF sv = s_true THEN Bool(TRUE)
    ELSE IF sv \in {s_false, <<>>, s_nan} THEN Bool(FALSE)
    ELSE NaNV

\* lines 525-531
NormalizeSelection(col) ==
    LET filled == FillNaFalse(col) IN
    IF DtypeAfterFill(col) = "object"
    THEN FillNaFalse([k \in 1..Len(col) |-> SelectionMap(Lower(Strip(PyStr(filled[k]))))])
    ELSE filled

\* x == True, as pandas compares the elements of a column (1 == True)
EqualsTrue(v) == v = Bool(TRUE) \/ v = Num(1, 0)

\* line 534: the indexes (from 1) of the rows of df_filtered
FilteredRows(cols, rows) ==
    LET flags == NormalizeSelection([k \in 1..Len(rows) |-> Cell(cols, rows[k], c_Selection)])
    IN {k \in 1..Len(rows) : EqualsTrue(flags[k])}

\* lines 537-564, one row of the selection-flag layout
SelectionRow(cols, row) ==
    IF \/ ~HasCol(cols, c_MeasureGroup) \/ ~HasCol(cols, c_MeasureName)
       \/ ~HasCol(cols, c_DisplayName) \/ ~HasCol(cols, c_Definitions)
    THEN RowError
    ELSE LET measure_group == StrOrEmpty(Cell(cols, row, c_MeasureGroup))
             measure_name == StrOrEmpty(Cell(cols, row, c_MeasureName))
             display_name == StrOrEmpty(Cell(cols, row, c_DisplayName))
             definition == StrOrEmpty(Cell(cols, row, c_Definitions))
         IN IF IsBlankName(measure_group) THEN RowSkip
            ELSE RowRecord([measure_group |-> measure_group,
                            standard_kpis |-> measure_name,
                            measure_display_name |->
                                IF ~IsBlankName(display_name) THEN display_name
                                ELSE measure_name,
                            definition |-> definition])

\* row.iloc[j] (j from 0) behind the guard len(row) > j
ILocOrEmpty(row, j) == IF Len(row) > j THEN StrOrEmpty(row[j + 1]) ELSE <<>>

\* lines 580-581: is the first cell of this row a header artifact
FirstCellIsArtifact(row) ==
    LET first_col_val == IF notna(row[1]) THEN Lower(Strip(PyStr(row[1]))) ELSE <<>>
    IN first_col_val \in {s_nan, <<>>, s_ref} \/ Contains(first_col_val, s_unnamed)

\* lines 570-603, one row of the plain layout
PlainRow(cols, row) ==
    IF HasCol(cols, c_MeasureGroup)
    THEN IF \/ ~HasCol(cols, c_StandardKPIs) \/ ~HasCol(cols, c_MeasureDisplayName)
            \/ ~HasCol(cols, c_Definition)
         THEN RowError
         ELSE LET measure_group == StrOrEmpty(Cell(cols, row, c_MeasureGroup)) IN
              IF IsBlankName(measure_group) THEN RowSkip
              ELSE RowRecord([measure_group |-> measure_group,
                              standard_kpis |-> StrOrEmpty(Cell(cols, row, c_StandardKPIs)),
                              measure_display_name |->
                                  StrOrEmpty(Cell(cols, row, c_MeasureDisplayName)),
                              definition |-> StrOrEmpty(Cell(cols, row, c_Definition))])
    ELSE LET shift == IF FirstCellIsArtifact(row) THEN 1 ELSE 0
             measure_group == ILocOrEmpty(row, shift)
         IN IF IsBlankName(measure_group) THEN RowSkip
            ELSE RowRecord([measure_group |-> measure_group,
                            standard_kpis |-> ILocOrEmpty(row, shift + 1),
                            measure_display_name |-> ILocOrEmpty(row, shift + 2),
                            definition |-> ILocOrEmpty(row, shift + 3)])

\* lines 469 and 472
has_grouping_name == HasCol(df_columns, c_GroupingName)
has_selection_column == HasCol(df_columns, c_Selection)

\* lines 474-516
ReadGroupingLayout ==
    /\ pc = "read_call"
    /\ has_grouping_name
    /\ LET passes == [k \in 1..Len(df_rows) |-> GroupingRow(df_columns, df_rows[k], k - 1)] IN
        /\ data' = Appended(passes)
        /\ returned' = Returned(passes)
    /\ pc' = "read_done"
    /\ UNCHANGED <<df_columns, df_rows, notRead>>

\* lines 517-566
ReadSelectionLayout ==
    /\ pc = "read_call"
    /\ ~has_grouping_name
    /\ has_selection_column
    /\ LET kept == FilteredRows(df_columns, df_rows)
           passes == [k \in 1..Len(df_rows) |->
                         IF k \in kept THEN SelectionRow(df_columns, df_rows[k]) ELSE RowSkip]
       IN /\ data' = Appended(passes)
          /\ returned' = Returned(passes)
    /\ pc' = "read_done"
    /\ UNCHANGED <<df_columns, df_rows, notRead>>

\* lines 567-605
ReadPlainLayout ==
    /\ pc = "read_call"
    /\ ~has_grouping_name
    /\ ~has_selection_column
    /\ LET passes == [k \in 1..Len(df_rows) |-> PlainRow(df_columns, df_rows[k])] IN
        /\ data' = Appended(passes)
        /\ returned' = Returned(passes)
    /\ pc' = "read_done"
    /\ UNCHANGED <<df_columns, df_rows, notRead>>

---------------------------------------------------------------------------
(* read_excel_data, lines 441-463: the search for the header row *)

s_grouping_name == <<"g", "r", "o", "u", "p", "i", "n", "g", " ", "n", "a", "m", "e">>
s_scorecard_measure_selection == <<"s", "c", "o", "r", "e", "c", "a", "r", "d", " ", "m", "e", "a", "s", "u", "r", "e", " ", "s", "e", "l", "e", "c", "t", "i", "o", "n">>

\* ' '.join(parts)
RECURSIVE JoinSpace(_)
JoinSpace(parts) ==
    IF parts = <<>> THEN <<>>
    ELSE IF Len(parts) = 1 THEN parts[1]
    ELSE parts[1] \o <<" ">> \o JoinSpace(Tail(parts))

\* lines 448 and 456
temp_row_values(cells) ==
    [j \in 1..Len(cells) |-> IF notna(cells[j]) THEN Lower(Strip(PyStr(cells[j]))) ELSE <<>>]

\* line 449
row_str(cells) == JoinSpace(temp_row_values(cells))

\* line 450
IsSchemaRow(cells) ==
    \/ Contains(row_str(cells), kw_measure_group)
    \/ Contains(row_str(cells), s_scorecard_measure_selection)
    \/ Contains(row_str(cells), s_grouping_name)

\* line 443: the first 5 rows of the sheet read without a header. The sheet
\* is the one that line 463 reads as df with header=0: its first row holds the
\* column names, and a blank cell there is the column pandas calls 'Unnamed: 0'.
df_temp(cols, rows) ==
    <<[j \in 1..Len(cols) |-> IF cols[j] = c_Unnamed0 THEN NaNV ELSE Str(cols[j])]>>
        \o SubSeq(rows, 1, IF Len(rows) < 4 THEN Len(rows) ELSE 4)

\* lines 446-460
detect_header_row(temp) ==
    LET hits == {i \in 1..Len(temp) : i <= 5 /\ IsSchemaRow(temp[i])}
        found == IF hits = {} THEN 0 ELSE (CHOOSE i \in hits : \A k \in hits : i <= k) - 1
    IN IF /\ found = 0
          /\ \/ Contains(row_str(temp[1]), s_ref)
             \/ Contains(Lower(row_str(temp[1])), s_unnamed)
       THEN 1
       ELSE found

---------------------------------------------------------------------------
(* Specification SpecRead: read_excel_data on a bounded family of sheets *)

MaxDataRows == 2

GroupCells == {NaNV, Str(v_A_sp), Str(v_sp), Str(v_sp_nan)}
FlagCells == {Bool(TRUE), Bool(FALSE), NaNV, Str(v_TRUE), Str(v_true_sp), Str(v_False),
              Str(v_yes), Num(1, 0)}

\* the cells a column of a sheet may hold
ColDomain(name) ==
    CASE name \in {c_GroupingName, c_Col} -> GroupCells
      [] name = c_MeasureGroup -> GroupCells \ {Str(v_sp)}
      [] name = c_Selection -> FlagCells
      [] name = c_MeasureOrder -> {NaNV, Num(3, 0), Str(v_abc)}
      [] name \in {c_ClientName, c_DisplayName} -> {NaNV, Str(v_d)}
      [] name = c_Unnamed0 -> {NaNV, Str(v_REF), Str(v_A_sp)}
      [] OTHER -> {Str(v_k)}

HeaderPool == {
    <<c_GroupingName, c_ClientName, c_InternalName2, c_Notes, c_MeasureOrder>>,
    <<c_GroupingName, c_ClientName, c_InternalName2, c_Notes>>,
    <<c_Selection, c_MeasureGroup, c_MeasureName, c_DisplayName, c_Definitions>>,
    <<c_MeasureGroup, c_StandardKPIs, c_MeasureDisplayName, c_Definition>>,
    <<c_Unnamed0, c_Col, c_StandardKPIs, c_MeasureDisplayName, c_Definition>>,
    <<c_Col, c_StandardKPIs, c_MeasureDisplayName, c_Definition>> }

RECURSIVE RowsFrom(_, _)
RowsFrom(cols, j) ==
    IF j > Len(cols) THEN {<<>>}
    ELSE {<<c>> \o r : c \in ColDomain(cols[j]), r \in RowsFrom(cols, j + 1)}

\* a blank display name is drawn only next to a filled measure group
RowInPool(cols, r) ==
    (HasCol(cols, c_DisplayName) /\ Cell(cols, r, c_DisplayName) = NaNV)
        => Cell(cols, r, c_MeasureGroup) = Str(v_A_sp)

RowsOf(cols) == {r \in RowsFrom(cols, 1) : RowInPool(cols, r)}

InitRead ==
    /\ pc = "read_call"
    /\ df_columns \in HeaderPool
    /\ \E n \in 0..MaxDataRows : df_rows \in [1..n -> RowsOf(df_columns)]
    /\ detect_header_row(df_temp(df_columns, df_rows)) = 0
    /\ data = <<>>
    /\ returned = "pending"
    /\ IdleNum
    /\ IdleHdr
    /\ IdleWT
    /\ IdleMap
    /\ IdleRuns
    /\ IdleAuto

NextRead == ReadGroupingLayout \/ ReadSelectionLayout \/ ReadPlainLayout

SpecRead == InitRead /\ [][NextRead]_vars

---------------------------------------------------------------------------
(* Claims C1 and C2: the records read_excel_data returns *)

ReadReturnedData == pc = "read_done" /\ returned = "data"

\* the rows the row loop iterates over: df_filtered in the selection-flag
\* layout, df in the two others
LoopRows ==
    IF ~has_grouping_name /\ has_selection_column
    THEN FilteredRows(df_columns, df_rows)
    ELSE 1..Len(df_rows)

\* the columns that can be the sheet's grouping column: the named one, or with
\* positional reads the first or the second column of the sheet
GroupingColumns ==
    IF has_grouping_name THEN {j \in 1..Len(df_columns) : df_columns[j] = c_GroupingName}
    ELSE IF HasCol(df_columns, c_MeasureGroup)
    THEN {j \in 1..Len(df_columns) : df_columns[j] = c_MeasureGroup}
    ELSE {1, 2}

TrimmedText(v) == IF v.t \in {"none", "nan"} THEN <<>> ELSE Strip(PyStr(v))
NonBlankText(t) == t # <<>> /\ t # s_nan

\* the trimmed grouping cells of the looped rows, read from column g
GroupingCells(g) ==
    [k \in 1..Len(df_rows) |-> IF k \in LoopRows THEN TrimmedText(df_rows[k][g]) ELSE <<>>]

MeasureGroups == [k \in 1..Len(data) |-> data[k].measure_group]

\* C1: every record read_excel_data returns has a non-empty measure_group
\* (trimmed, and not the string 'nan'), and the records are exactly the rows
\* whose cell in the sheet's grouping column is not blank: a row with a blank
\* grouping cell is dropped, never emitted with its other fields.
C1_BlankGroupRowsDropped ==
    ReadReturnedData =>
        /\ \A k \in 1..Len(data) :
              NonBlankText(data[k].measure_group)
              /\ Strip(data[k].measure_group) = data[k].measure_group
        /\ \E g \in GroupingColumns : MeasureGroups = SelectSeq(GroupingCells(g), NonBlankText)

\* the value normalizes to true: boolean true, or a case/whitespace variant
\* of the string 'true'
FlagIsTrue(v) == v = Bool(TRUE) \/ (v.t = "str" /\ Lower(Strip(v.s)) = s_true)

SelectedRows ==
    {k \in 1..Len(df_rows) :
        /\ FlagIsTrue(Cell(df_columns, df_rows[k], c_Selection))
        /\ NonBlankText(TrimmedText(Cell(df_columns, df_rows[k], c_MeasureGroup)))}

SelectedGroups ==
    LET cells == [k \in 1..Len(df_rows) |->
                     IF k \in SelectedRows
                     THEN TrimmedText(Cell(df_columns, df_rows[k], c_MeasureGroup))
                     ELSE <<>>]
    IN SelectSeq(cells, NonBlankText)

\* C2: in the selection-flag layout the records are exactly the rows whose
\* flag normalizes to true (boolean true, 'TRUE', 'true ') and whose measure
\* group is not blank; 'False', blank/NaN and any other value are excluded.
C2_ExactlyTrueFlagsEmitted ==
    (ReadReturnedData /\ ~has_grouping_name /\ has_selection_column) =>
        /\ Len(data) = Cardinality(SelectedRows)
        /\ MeasureGroups = SelectedGroups

---------------------------------------------------------------------------
(* process_weights_targets_file, lines 1390-1933: the setup mapping and the
   three passes over the export file *)

w_S == <<"S">>
w_T == <<"T">>
w_B == <<"B">>
w_M1 == <<"M", "1">>
w_M2 == <<"M", "2">>
w_m1_sp == <<"m", "1", " ">>
w_R1 == <<"R", "1">>
w_R1ES == <<"R", "1", "-", "E", "S">>
w_R9 == <<"R", "9">>
w_ALL == <<"A", "L", "L">>
w_all == <<"a", "l", "l">>
w_0pct == <<"0", "%">>
w_85pct == <<"8", "5", "%">>
w_pct == <<"%">>
w_1_2_3pct == <<"1", ".", "2", ".", "3", "%">>
s_toys == <<"-", "t", "o", "y", "s">>
s_es == <<"-", "e", "s">>
s_dash == <<"-">>

\* the scorecard name entered in the UI
scorecard_name == Str(w_S)

\* .isna() | (== ''): the blank test of the filter masks
IsBlankCell(v) == isna(v) \/ v = Str(<<>>)

\* the same test that also takes 0 for a blank
IsBlankOrZero(v) == isna(v) \/ v = Str(<<>>) \/ v = Num(0, 0)

\* pd.isna(v) or v == '' or v is None, lines 1565 and 1572
IsBlankValue(v) == isna(v) \/ v = Str(<<>>)

\* a default pass that writes every cell
FillAlways(v, d) == d

\* lines 1565-1566 and 1572-1573 for one cell
FillDefault(v, d) == IF IsBlankValue(v) THEN d ELSE v

\* the defaults of lines 1566 and 1573
DefaultTarget == Num(50, 0)
DefaultWeight == Num(1, 0)

\* row[col] if pd.notna(row[col]) else None
RawOrNone(v) == IF notna(v) THEN v ELSE NoneV

\* dictionaries, in insertion order: d[key] = val
DictHas(d, key) == \E j \in 1..Len(d) : d[j].key = key
DictGet(d, key) == d[CHOOSE j \in 1..Len(d) : d[j].key = key].val
DictSet(d, key, val) ==
    IF DictHas(d, key)
    THEN [j \in 1..Len(d) |-> IF d[j].key = key THEN [key |-> key, val |-> val] ELSE d[j]]
    ELSE Append(d, [key |-> key, val |-> val])

\* lines 1394-1431 for one setup row: which dictionary it goes to, under which key
SetupEntry(row, has_ret) ==
    LET metric_name == StrOrEmpty(row.metric)
        val == [target |-> extract_number(RawOrNone(row.target)),
                weight |-> extract_number(RawOrNone(row.weight))]
        retailer_name == StrOrEmpty(row.retailer)
    IN IF IsBlankName(metric_name) THEN [to |-> "skip", key |-> <<>>, val |-> val]
       ELSE IF has_ret
       THEN IF Upper(retailer_name) = w_ALL
            THEN [to |-> "all", key |-> <<Lower(metric_name)>>, val |-> val]
            ELSE [to |-> "mapping", key |-> <<Lower(retailer_name), Lower(metric_name)>>,
                  val |-> val]
       ELSE [to |-> "mapping", key |-> <<Lower(metric_name)>>, val |-> val]

\* lines 1390-1431: the dictionary named `to` after the loop over the setup rows
RECURSIVE BuildMapping(_, _, _)
BuildMapping(rows, has_ret, to) ==
    IF rows = <<>> THEN <<>>
    ELSE LET before == BuildMapping(SubSeq(rows, 1, Len(rows) - 1), has_ret, to)
             entry == SetupEntry(rows[Len(rows)], has_ret)
         IN IF entry.to = to THEN DictSet(before, entry.key, entry.val) ELSE before

\* a filter that does not look at the brand
metric_mask_any_brand(row) ==
    /\ row.scorecard = scorecard_name
    /\ IsBlankCell(row.retailer)
    /\ IsBlankCell(row.measure_group)
    /\ notna(row.measure_config)
    /\ row.measure_config # Str(<<>>)

\* lines 1465-1472
metric_mask(row) ==
    /\ row.scorecard = scorecard_name
    /\ IsBlankCell(row.retailer)
    /\ IsBlankCell(row.brand)
    /\ IsBlankCell(row.measure_group)
    /\ notna(row.measure_config)
    /\ row.measure_config # Str(<<>>)

NoData == [found |-> FALSE, val |-> [target |-> NoneV, weight |-> NoneV]]
Found(val) == [found |-> TRUE, val |-> val]

\* a lookup that asks the 'ALL' entries before the entries of the row's retailer
SetupDataAllFirst(row, mapping, mapping_all, has_ret) ==
    LET measure_config == StrOrEmpty(row.measure_config)
        metric_key == Lower(measure_config)
        retailer_key == Lower(StrOrEmpty(row.retailer))
    IN IF IsBlankName(measure_config) THEN NoData
       ELSE IF has_ret
       THEN IF DictHas(mapping_all, <<metric_key>>)
            THEN Found(DictGet(mapping_all, <<metric_key>>))
            ELSE IF DictHas(mapping, <<retailer_key, metric_key>>)
            THEN Found(DictGet(mapping, <<retailer_key, metric_key>>))
            ELSE NoData
       ELSE IF DictHas(mapping, <<metric_key>>)
            THEN Found(DictGet(mapping, <<metric_key>>))
            ELSE NoData

\* lines 1493-1526: setup_data for one export row
SetupData(row, mapping, mapping_all, has_ret) ==
    LET measure_config == StrOrEmpty(row.measure_config)
        metric_key == Lower(measure_config)
        retailer_key == Lower(StrOrEmpty(row.retailer))
    IN IF IsBlankName(measure_config) THEN NoData
       ELSE IF has_ret
       THEN IF DictHas(mapping, <<retailer_key, metric_key>>)
            THEN Found(DictGet(mapping, <<retailer_key, metric_key>>))
            ELSE IF DictHas(mapping_all, <<metric_key>>)
            THEN Found(DictGet(mapping_all, <<metric_key>>))
            ELSE NoData
       ELSE IF DictHas(mapping, <<metric_key>>)
            THEN Found(DictGet(mapping, <<metric_key>>))
            ELSE NoData

\* lines 1491-1549 for one export row
MetricRow(row, mapping, mapping_all, has_ret) ==
    LET setup_data == SetupData(row, mapping, mapping_all, has_ret) IN
    IF metric_mask(row) /\ setup_data.found
    THEN [row EXCEPT !.target = IF notna(setup_data.val.target) THEN setup_data.val.target
                                ELSE @,
                     !.weight = IF notna(setup_data.val.weight) THEN setup_data.val.weight
                                ELSE @]
    ELSE row

\* lines 1562-1574 for one export row
DefaultRow(row) ==
    [row EXCEPT !.target = FillDefault(@, DefaultTarget),
                !.weight = FillDefault(@, DefaultWeight)]

\* str.replace(pat, '')
RECURSIVE Remove(_, _)
Remove(s, pat) ==
    IF Len(s) < Len(pat) \/ s = <<>> THEN s
    ELSE IF SubSeq(s, 1, Len(pat)) = pat THEN Remove(SubSeq(s, Len(pat) + 1, Len(s)), pat)
    ELSE <<Head(s)>> \o Remove(Tail(s), pat)

\* lines 1777-1778
Normalized(s) == Strip(Remove(Remove(Remove(s, s_toys), s_es), s_dash))

\* lines 1774-1796: does this key of the mapping match
KeyMatches(export_retailer_lower, mapping_key) ==
    LET export_normalized == Normalized(export_retailer_lower)
        mapping_normalized == Normalized(mapping_key)
    IN \/ export_normalized = mapping_normalized
       \/ /\ export_normalized # <<>>
          /\ mapping_normalized # <<>>
          /\ \/ Contains(mapping_normalized, export_normalized)
             \/ Contains(export_normalized, mapping_normalized)
          /\ Len(export_normalized) > 3
          /\ Len(mapping_normalized) > 3
       \/ Contains(export_retailer_lower, mapping_key)
       \/ Contains(mapping_key, export_retailer_lower)

\* lines 1761-1799: the index of the matching entry of the mapping, 0 for None
find_matching_retailer(export_retailer_name, mapping) ==
    LET export_retailer_lower == Strip(Lower(export_retailer_name))
        exact == {j \in 1..Len(mapping) : mapping[j].key = export_retailer_lower}
        partial == {j \in 1..Len(mapping) : KeyMatches(export_retailer_lower, mapping[j].key)}
    IN IF export_retailer_name = <<>> THEN 0
       ELSE IF exact # {} THEN CHOOSE j \in exact : TRUE
       ELSE IF partial # {} THEN CHOOSE j \in partial : \A k \in partial : j <= k
       ELSE 0

\* lines 1725-1739: decimals between 0 and 1 are taken for percentages
AsPercentage(v) ==
    IF v.t = "num" /\ v.m > 0 /\ v.m < Pow10(v.e) THEN Num(v.m * 100, v.e)
    ELSE IF v = Num(1, 0) THEN Num(100, 0)
    ELSE v

\* lines 1704-1720: the fallback for a None of extract_number
FallbackFloat(val, raw) ==
    IF val = NoneV /\ raw # NoneV
    THEN IF raw.t = "num" THEN raw
         ELSE IF raw.t = "str" /\ Strip(raw.s) # <<>> /\ ParseFloat(Strip(raw.s)).ok
         THEN ParseFloat(Strip(raw.s)).val
         ELSE NoneV
    ELSE val

\* lines 1695-1739 for one cell of the retailer sheet
RetailerValue(cell) ==
    AsPercentage(FallbackFloat(extract_number(RawOrNone(cell)), RawOrNone(cell)))

\* lines 1682-1745: retailer_mapping after the loop over the retailer sheet
RECURSIVE BuildRetailerMapping(_)
BuildRetailerMapping(rows) ==
    IF rows = <<>> THEN <<>>
    ELSE LET before == BuildRetailerMapping(SubSeq(rows, 1, Len(rows) - 1))
             row == rows[Len(rows)]
             retailer_name == StrOrEmpty(row.retailer)
         IN IF IsBlankName(retailer_name) THEN before
            ELSE DictSet(before, Lower(retailer_name),
                         [target |-> RetailerValue(row.target),
                          weight |-> RetailerValue(row.weight)])

\* lines 1811-1826: the scorecard name the retailer filter uses
scorecard_to_use(frame) ==
    LET same == {j \in 1..Len(frame) :
                    Lower(PyStr(frame[j].scorecard)) = Lower(PyStr(scorecard_name))}
    IN IF \E j \in 1..Len(frame) : frame[j].scorecard = scorecard_name THEN scorecard_name
       ELSE IF same # {} THEN frame[CHOOSE j \in same : \A k \in same : j <= k].scorecard
       ELSE scorecard_name

\* lines 1836-1847
retailer_mask(row, frame) ==
    /\ notna(row.retailer)
    /\ row.retailer # Str(<<>>)
    /\ row.scorecard = scorecard_to_use(frame)
    /\ IsBlankCell(row.brand)
    /\ IsBlankCell(row.measure_group)
    /\ IsBlankCell(row.measure_config)

\* a write that leaves a cell alone once it holds a value
ApplyIfBlank(old, v) ==
    IF ~IsBlankValue(old) THEN old
    ELSE IF v = NoneV THEN old
    ELSE IF v.t = "num" THEN v
    ELSE IF v.t = "str" /\ ParseFloat(v.s).ok THEN ParseFloat(v.s).val
    ELSE old

\* lines 1891-1904 and 1915-1929: float(value) written when it is a number
ForceApply(old, v) ==
    IF v = NoneV THEN old
    ELSE IF v.t = "num" THEN v
    ELSE IF v.t = "str" /\ ParseFloat(v.s).ok THEN ParseFloat(v.s).val
    ELSE old

\* lines 1872-1935 for one export row
RetailerRow(row, frame, mapping) ==
    LET retailer_name == StrOrEmpty(row.retailer)
        matching_key == find_matching_retailer(retailer_name, mapping)
    IN IF retailer_mask(row, frame) /\ retailer_name # <<>> /\ matching_key # 0
       THEN [row EXCEPT !.target = ForceApply(@, mapping[matching_key].val.target),
                        !.weight = ForceApply(@, mapping[matching_key].val.weight)]
       ELSE row

\* lines 1390-1431
BuildSetupMapping ==
    /\ pc = "wt_setup"
    /\ setup_mapping' = BuildMapping(setup_df, has_retailer_col, "mapping")
    /\ setup_mapping_all' = BuildMapping(setup_df, has_retailer_col, "all")
    /\ pc' = "wt_metric"
    /\ UNCHANGED <<export_file, export_df, setup_df, has_retailer_col, retailer_file,
                   retailer_df, retailer_mapping, notWT>>

\* lines 1459-1555, Step 1
MetricPass ==
    /\ pc = "wt_metric"
    /\ export_df' = [k \in 1..Len(export_df) |->
                        MetricRow(export_df[k], setup_mapping, setup_mapping_all,
                                  has_retailer_col)]
    /\ pc' = "wt_default"
    /\ UNCHANGED <<export_file, setup_df, has_retailer_col, setup_mapping, setup_mapping_all,
                   retailer_file, retailer_df, retailer_mapping, notWT>>

\* lines 1557-1577, Step 2
DefaultPass ==
    /\ pc = "wt_default"
    /\ export_df' = [k \in 1..Len(export_df) |-> DefaultRow(export_df[k])]
    /\ pc' = "wt_retailer"
    /\ UNCHANGED <<export_file, setup_df, has_retailer_col, setup_mapping, setup_mapping_all,
                   retailer_file, retailer_df, retailer_mapping, notWT>>

\* lines 1599-1964, Step 3 with a retailer sheet
RetailerPass ==
    /\ pc = "wt_retailer"
    /\ retailer_file
    /\ LET mapping == BuildRetailerMapping(retailer_df) IN
        /\ retailer_mapping' = mapping
        /\ export_df' = [k \in 1..Len(export_df) |->
                            RetailerRow(export_df[k], export_df, mapping)]
    /\ pc' = "wt_done"
    /\ UNCHANGED <<export_file, setup_df, has_retailer_col, setup_mapping, setup_mapping_all,
                   retailer_file, retailer_df, notWT>>

\* line 1599: no retailer sheet was given, Step 3 is left out
NoRetailerFile ==
    /\ pc = "wt_retailer"
    /\ ~retailer_file
    /\ pc' = "wt_done"
    /\ UNCHANGED <<wtVars, notWT>>

---------------------------------------------------------------------------
(* Specification SpecWT: the passes on a bounded family of files *)

MaxExportRows == 2

ExportRow(sc, ret, br, mc, tg, wg) ==
    [scorecard |-> sc, retailer |-> ret, brand |-> br, measure_group |-> NaNV,
     measure_config |-> mc, target |-> tg, weight |-> wg]

\* rows of the export file: metric rows, retailer rows, and rows no filter takes
ExportPool == {
    ExportRow(Str(w_S), NaNV, NaNV, Str(w_M1), NaNV, NaNV),
    ExportRow(Str(w_S), NaNV, NaNV, Str(w_M1), Num(70, 0), Num(2, 0)),
    ExportRow(Str(w_S), NaNV, NaNV, Str(w_M2), NaNV, Num(0, 0)),
    ExportRow(Str(w_S), Str(w_R1), NaNV, NaNV, NaNV, NaNV),
    ExportRow(Str(w_S), Str(w_R1ES), NaNV, NaNV, Num(70, 0), NaNV),
    ExportRow(Str(w_S), Str(w_R9), NaNV, NaNV, NaNV, Num(0, 0)),
    ExportRow(Str(w_T), NaNV, NaNV, Str(w_M1), Str(<<>>), NaNV),
    ExportRow(Str(w_S), NaNV, Str(w_B), Str(w_M1), Num(0, 0), NaNV) }

SetupRow(me, ret, tg, wg) == [metric |-> me, retailer |-> ret, target |-> tg, weight |-> wg]

\* setup sheets, as the rows of setup_df
SetupPool == {
    <<>>,
    <<SetupRow(Str(w_M1), NaNV, Num(0, 0), Num(0, 0))>>,
    <<SetupRow(Str(w_M1), NaNV, Str(w_0pct), NaNV)>>,
    <<SetupRow(Str(w_m1_sp), Str(w_all), Str(w_85pct), Num(5, 1))>>,
    <<SetupRow(Str(w_M1), Str(w_R1), Num(0, 0), Num(0, 0)),
      SetupRow(NaNV, NaNV, Num(85, 0), Num(2, 0))>>,
    <<SetupRow(Str(w_M1), NaNV, Num(85, 0), Num(2, 0)),
      SetupRow(Str(w_M1), NaNV, NaNV, Num(0, 0))>>,
    <<SetupRow(Str(w_M1), NaNV, Str(v_abc), Str(w_pct))>>,
    <<SetupRow(Str(w_M1), NaNV, Str(w_1_2_3pct), Str(v_abc))>>,
    <<SetupRow(Str(w_M1), Str(w_R1), Num(10, 0), Num(4, 0)),
      SetupRow(Str(w_M1), Str(w_all), Num(85, 0), Num(5, 1)),
      SetupRow(Str(w_m1_sp), NaNV, Num(60, 0), Num(3, 0))>> }

RetailerSheetRow(ret, tg, wg) == [retailer |-> ret, target |-> tg, weight |-> wg]

\* retailer sheets, as the rows of retailer_df
RetailerPool == {
    <<RetailerSheetRow(Str(w_R1), Num(0, 0), Num(0, 0))>>,
    <<RetailerSheetRow(Str(w_R1), Str(w_0pct), Num(5, 1))>>,
    <<RetailerSheetRow(Str(w_R1), NaNV, Num(1, 0)),
      RetailerSheetRow(Str(w_R9), Num(85, 0), NaNV)>> }

InitWT ==
    /\ pc = "wt_setup"
    /\ \E n \in 1..MaxExportRows : export_file \in [1..n -> ExportPool]
    /\ export_df = export_file
    /\ setup_df \in SetupPool
    /\ has_retailer_col \in BOOLEAN
    /\ setup_mapping = <<>>
    /\ setup_mapping_all = <<>>
    /\ retailer_file \in BOOLEAN
    /\ retailer_df \in (IF retailer_file THEN RetailerPool ELSE {<<>>})
    /\ retailer_mapping = <<>>
    /\ IdleNum
    /\ IdleHdr
    /\ IdleRead
    /\ IdleMap
    /\ IdleRuns
    /\ IdleAuto

NextWT == BuildSetupMapping \/ MetricPass \/ DefaultPass \/ RetailerPass \/ NoRetailerFile

SpecWT == InitWT /\ [][NextWT]_vars

---------------------------------------------------------------------------
(* Claims C9 and C10: defaults and overrides of 0 *)

IsBlank(v) == v.t \in {"none", "nan"} \/ v = Str(<<>>)
Zero == Num(0, 0)

\* the cell of a sheet holds an explicit 0
IsZeroCell(v) == v = Zero \/ (v.t = "str" /\ Strip(v.s) \in {<<"0">>, w_0pct})

\* the override the setup sheet holds for export row k
SetupOverride(k) ==
    SetupData(export_file[k], setup_mapping, setup_mapping_all, has_retailer_col)

IsMetricRow(k) == metric_mask(export_file[k]) /\ SetupOverride(k).found

\* the metric-level overrides are in the frame
OverridesApplied ==
    \A k \in 1..Len(export_df) :
        IsMetricRow(k) =>
            /\ ~IsBlank(SetupOverride(k).val.target)
                  => export_df[k].target = SetupOverride(k).val.target
            /\ ~IsBlank(SetupOverride(k).val.weight)
                  => export_df[k].weight = SetupOverride(k).val.weight

DefaultStep == pc = "wt_default" /\ pc' # "wt_default"

\* C9: the default pass runs when the metric-level overrides of the setup
\* sheet are in the frame; it gives 50 to every row whose target is still
\* blank and 1.0 to every row whose weight is still blank, and it changes no
\* target or weight that is not blank, nor any other field.
C9_DefaultsFillOnlyBlanks ==
    [][DefaultStep =>
          /\ OverridesApplied
          /\ Len(export_df') = Len(export_df)
          /\ \A k \in 1..Len(export_df) :
                /\ export_df'[k].target =
                      IF IsBlank(export_df[k].target) THEN Num(50, 0) ELSE export_df[k].target
                /\ export_df'[k].weight =
                      IF IsBlank(export_df[k].weight) THEN Num(1, 0) ELSE export_df[k].weight
                /\ [export_df'[k] EXCEPT !.target = NaNV, !.weight = NaNV]
                      = [export_df[k] EXCEPT !.target = NaNV, !.weight = NaNV]]_vars

\* after the default pass: one row took the target of the setup sheet, 85,
\* another row's blank target became 50 and a blank weight became 1.0, and a
\* weight of the file that was not blank is as it was
C9_Witness ==
    /\ pc = "wt_retailer"
    /\ \E k \in 1..Len(export_df) :
          /\ IsMetricRow(k)
          /\ IsBlank(export_file[k].target)
          /\ export_df[k].target = Num(85, 0)
    /\ \E k \in 1..Len(export_df) :
          /\ IsBlank(export_file[k].target) /\ export_df[k].target = Num(50, 0)
          /\ IsBlank(export_file[k].weight) /\ export_df[k].weight = Num(1, 0)

\* the last row of the setup sheet that writes the entry of row i
IsLastForKey(i) ==
    /\ SetupEntry(setup_df[i], has_retailer_col).to # "skip"
    /\ \A j \in (i + 1)..Len(setup_df) :
          \/ SetupEntry(setup_df[j], has_retailer_col).to
                # SetupEntry(setup_df[i], has_retailer_col).to
          \/ SetupEntry(setup_df[j], has_retailer_col).key
                # SetupEntry(setup_df[i], has_retailer_col).key

MappingOf(i) ==
    IF SetupEntry(setup_df[i], has_retailer_col).to = "all" THEN setup_mapping_all
    ELSE setup_mapping

\* an explicit 0 of the setup sheet is the 0 of its entry of the mapping
SetupZeroKept ==
    \A i \in 1..Len(setup_df) :
        IsLastForKey(i) =>
            LET key == SetupEntry(setup_df[i], has_retailer_col).key IN
            /\ DictHas(MappingOf(i), key)
            /\ IsZeroCell(setup_df[i].target) => DictGet(MappingOf(i), key).target = Zero
            /\ IsZeroCell(setup_df[i].weight) => DictGet(MappingOf(i), key).weight = Zero

\* the entry of the retailer mapping that export row k takes, 0 for none
RetailerEntry(k) ==
    IF retailer_mask(export_file[k], export_file)
    THEN find_matching_retailer(StrOrEmpty(export_file[k].retailer), retailer_mapping)
    ELSE 0

IsLastRetailerRow(i) ==
    /\ ~IsBlankName(StrOrEmpty(retailer_df[i].retailer))
    /\ \A j \in (i + 1)..Len(retailer_df) :
          Lower(StrOrEmpty(retailer_df[j].retailer)) # Lower(StrOrEmpty(retailer_df[i].retailer))

\* an explicit 0 of the retailer sheet is the 0 of its entry of the mapping
RetailerZeroKept ==
    \A i \in 1..Len(retailer_df) :
        IsLastRetailerRow(i) =>
            LET key == Lower(StrOrEmpty(retailer_df[i].retailer)) IN
            /\ DictHas(retailer_mapping, key)
            /\ IsZeroCell(retailer_df[i].target) => DictGet(retailer_mapping, key).target = Zero
            /\ IsZeroCell(retailer_df[i].weight) => DictGet(retailer_mapping, key).weight = Zero

\* C10: an explicit override of 0 for target or weight, from the setup sheet
\* or from the retailer sheet, is written to the matching export row and is
\* still there after every later pass: the default 50 / 1.0 never replaces it.
C10_ZeroOverrideSurvives ==
    /\ pc \in {"wt_metric", "wt_default", "wt_retailer", "wt_done"} => SetupZeroKept
    /\ pc \in {"wt_default", "wt_retailer", "wt_done"} =>
          \A k \in 1..Len(export_df) :
              IsMetricRow(k) =>
                  /\ SetupOverride(k).val.target = Zero => export_df[k].target = Zero
                  /\ SetupOverride(k).val.weight = Zero => export_df[k].weight = Zero
    /\ (pc = "wt_done" /\ retailer_file) =>
          /\ RetailerZeroKept
          /\ \A k \in 1..Len(export_df) :
                RetailerEntry(k) # 0 =>
                    /\ retailer_mapping[RetailerEntry(k)].val.target = Zero
                          => export_df[k].target = Zero
                    /\ retailer_mapping[RetailerEntry(k)].val.weight = Zero
                          => export_df[k].weight = Zero

\* at the end: a metric row whose target of 70 became the 0 of the setup
\* sheet, and a retailer row whose target of 70 became the 0 of the retailer sheet
C10_Witness ==
    /\ pc = "wt_done"
    /\ \E k \in 1..Len(export_df) :
          /\ IsMetricRow(k)
          /\ \E i \in 1..Len(setup_df) : IsLastForKey(i) /\ IsZeroCell(setup_df[i].target)
          /\ SetupOverride(k).val.target = Zero
          /\ export_file[k].target = Num(70, 0)
          /\ export_df[k].target = Zero
    /\ \E k \in 1..Len(export_df) :
          /\ RetailerEntry(k) # 0
          /\ retailer_mapping[RetailerEntry(k)].val.target = Zero
          /\ export_file[k].target = Num(70, 0)
          /\ export_df[k].target = Zero

---------------------------------------------------------------------------
(* Claims C11 and C12: the order field and malformed rows of the grouping layout *)

ReadDone == pc = "read_done"

GroupingNameOf(k) == TrimmedText(Cell(df_columns, df_rows[k], c_GroupingName))

\* the order the row at position k (from 1) is to carry: its 'Measure Order'
\* when that is a number, else its position
OrderCellIsNumber(k) ==
    HasCol(df_columns, c_MeasureOrder)
    /\ Cell(df_columns, df_rows[k], c_MeasureOrder).t = "num"

ExpectedOrder(k) ==
    IF OrderCellIsNumber(k) THEN Cell(df_columns, df_rows[k], c_MeasureOrder) ELSE Num(k, 0)

HasGroup(t) == NonBlankText(t.grp)

\* the rows of the grouping layout that have a grouping name, in order
GroupedRows ==
    SelectSeq([k \in 1..Len(df_rows) |->
                  [pos |-> k, grp |-> GroupingNameOf(k), ord |-> ExpectedOrder(k)]],
              HasGroup)

\* C11: in the grouping layout each record carries the row's 'Measure Order'
\* when it is a number and otherwise (column absent, cell blank, cell not a
\* number) the row's 1-based position; the file is not rejected in any of
\* these cases.
C11_OrderOrRowPosition ==
    (ReadDone /\ has_grouping_name) =>
        /\ returned = "data"
        /\ Len(data) = Len(GroupedRows)
        /\ \A j \in 1..Len(data) :
              j <= Len(GroupedRows) => Num(data[j].order, 0) = GroupedRows[j].ord

\* the row at position k has no bad cell
OrderCellIsValid(k) ==
    isna(Cell(df_columns, df_rows[k], c_MeasureOrder)) \/ OrderCellIsNumber(k)

\* C12: one malformed row (a 'Measure Order' that is not a number) does not
\* abort the file: read_excel_data returns the records of all the valid rows,
\* not None.
C12_BadRowDoesNotAbort ==
    (ReadDone /\ has_grouping_name /\ HasCol(df_columns, c_MeasureOrder)) =>
        /\ returned = "data"
        /\ \A k \in 1..Len(df_rows) :
              (NonBlankText(GroupingNameOf(k)) /\ OrderCellIsValid(k)) =>
                  \E j \in 1..Len(data) :
                      /\ data[j].measure_group = GroupingNameOf(k)
                      /\ Num(data[j].order, 0) = ExpectedOrder(k)

---------------------------------------------------------------------------
(* process_weights_targets_file, lines 1305-1345: the column mapper of the
   setup sheet; lines 1662-1679: the columns of the retailer sheet *)

s_display == <<"d", "i", "s", "p", "l", "a", "y">>
s_name == <<"n", "a", "m", "e">>
s_metric == <<"m", "e", "t", "r", "i", "c">>
s_measure == <<"m", "e", "a", "s", "u", "r", "e">>
L_RetailerTarget == <<"R", "e", "t", "a", "i", "l", "e", "r", " ", "T", "a", "r", "g", "e", "t">>
L_RetailerWeight == <<"R", "e", "t", "a", "i", "l", "e", "r", " ", "W", "e", "i", "g", "h", "t">>

\* a first test that looks for 'target' alone
IsTargetAny(col_lower) == Contains(col_lower, kw_target)

\* line 1314, without the test of target_col
IsGenericTarget(col_lower) ==
    Contains(col_lower, kw_target) /\ ~Contains(col_lower, kw_retailer)

\* line 1316
IsDisplayName(col_lower) == Contains(col_lower, s_display) /\ Contains(col_lower, s_name)

\* line 1319
IsMetricName(col_lower) ==
    \/ Contains(col_lower, s_metric) /\ Contains(col_lower, s_name)
    \/ Contains(col_lower, s_measure) /\ Contains(col_lower, s_name)

\* line 1323
IsMetricWeight(col_lower) ==
    \/ Contains(col_lower, s_metric) /\ Contains(col_lower, kw_weight)
    \/ Contains(col_lower, s_measure) /\ Contains(col_lower, kw_weight)

\* lines 1327 and 1669
IsRetailerName(col_lower) ==
    /\ Contains(col_lower, kw_retailer)
    /\ ~Contains(col_lower, kw_target)
    /\ ~Contains(col_lower, kw_weight)

\* lines 1314-1328: the branch of the chain that column j takes
Branch(col_lower, tcol) ==
    IF IsGenericTarget(col_lower) /\ tcol = 0 THEN "target"
    ELSE IF IsDisplayName(col_lower) THEN "display"
    ELSE IF IsMetricName(col_lower) THEN "metric"
    ELSE IF IsMetricWeight(col_lower) THEN "weight"
    ELSE IF IsRetailerName(col_lower) THEN "retailer"
    ELSE "none"

\* lines 1312-1328, one pass of the loop over setup_df.columns
MapColumn ==
    /\ pc = "map_loop"
    /\ map_i < Len(setup_columns)
    /\ LET j == map_i + 1
           b == Branch(Lower(setup_columns[j]), target_col)
       IN /\ target_col' = IF b = "target" THEN j ELSE target_col
          /\ display_name_col' = IF b = "display" THEN j ELSE display_name_col
          /\ metric_col' = IF b = "metric" /\ metric_col = 0 THEN j ELSE metric_col
          /\ weight_col' = IF b = "weight" /\ weight_col = 0 THEN j ELSE weight_col
          /\ retailer_col' = IF b = "retailer" THEN j ELSE retailer_col
          /\ map_i' = j
    /\ UNCHANGED <<pc, setup_columns, retailer_columns, retailer_name_col, retailer_target_col,
                   retailer_weight_col, status_message, wt_returned, output_written, notMap>>

\* a choice that takes the Metric/Measure Name column when there is one
PreferMetricName(display, metric) == IF metric # 0 THEN metric ELSE display

\* lines 1331-1335
UseDisplayName(display, metric) == IF display # 0 THEN display ELSE metric

\* a test that does not ask for the weight column
RequiredWithoutWeight(t, m, w) == t # 0 /\ m # 0

\* line 1339: target_col and metric_col and weight_col
RequiredFound(t, m, w) == t # 0 /\ m # 0 /\ w # 0

\* lines 1339-1343: a required column is missing
MapperFails ==
    /\ pc = "map_loop"
    /\ map_i = Len(setup_columns)
    /\ ~RequiredFound(target_col, UseDisplayName(display_name_col, metric_col), weight_col)
    /\ metric_col' = UseDisplayName(display_name_col, metric_col)
    /\ status_message' = [kind |-> "required columns not found", columns |-> setup_columns]
    /\ wt_returned' = "False"
    /\ pc' = "map_failed"
    /\ UNCHANGED <<setup_columns, map_i, target_col, display_name_col, weight_col, retailer_col,
                   retailer_columns, retailer_name_col, retailer_target_col,
                   retailer_weight_col, output_written, notMap>>

\* lines 1331-1346: the mapping is complete
MapperDone ==
    /\ pc = "map_loop"
    /\ map_i = Len(setup_columns)
    /\ RequiredFound(target_col, UseDisplayName(display_name_col, metric_col), weight_col)
    /\ metric_col' = UseDisplayName(display_name_col, metric_col)
    /\ status_message' = [kind |-> "setup sheet mapped", columns |-> <<>>]
    /\ pc' = "map_export"
    /\ UNCHANGED <<setup_columns, map_i, target_col, display_name_col, weight_col, retailer_col,
                   retailer_columns, retailer_name_col, retailer_target_col,
                   retailer_weight_col, wt_returned, output_written, notMap>>

\* lines 1453-1457: the export file has no measure_config column
MissingMeasureConfig ==
    /\ pc = "map_export"
    /\ status_message' = [kind |-> "export file missing measure_config", columns |-> <<>>]
    /\ wt_returned' = "False"
    /\ pc' = "map_failed"
    /\ UNCHANGED <<setup_columns, map_i, target_col, metric_col, display_name_col, weight_col,
                   retailer_col, retailer_columns, retailer_name_col, retailer_target_col,
                   retailer_weight_col, output_written, notMap>>

\* lines 2083-2101: a statement of the passes raised (for one, the export file
\* has no scorecard column at line 1466); the frame is saved for debugging
ProcessRaises ==
    /\ pc = "map_export"
    /\ status_message' = [kind |-> "error processing file", columns |-> <<>>]
    /\ output_written' = TRUE
    /\ wt_returned' = "False"
    /\ pc' = "map_failed"
    /\ UNCHANGED <<setup_columns, map_i, target_col, metric_col, display_name_col, weight_col,
                   retailer_col, retailer_columns, retailer_name_col, retailer_target_col,
                   retailer_weight_col, notMap>>

\* lines 1459-1577: Step 1 and Step 2 ran (specification SpecWT has them)
PassesRan ==
    /\ pc = "map_export"
    /\ status_message' = [kind |-> "defaults applied", columns |-> <<>>]
    /\ pc' = "map_retailer"
    /\ UNCHANGED <<setup_columns, map_i, target_col, metric_col, display_name_col, weight_col,
                   retailer_col, retailer_columns, retailer_name_col, retailer_target_col,
                   retailer_weight_col, wt_returned, output_written, notMap>>

\* lines 1667-1675: the last column of each kind, 0 when there is none
LastWhere(cols, kind) ==
    LET hits == {j \in 1..Len(cols) : kind = (
                    IF IsRetailerName(Lower(cols[j])) THEN "name"
                    ELSE IF Contains(Lower(cols[j]), kw_retailer)
                            /\ Contains(Lower(cols[j]), kw_target) THEN "target"
                    ELSE IF Contains(Lower(cols[j]), kw_retailer)
                            /\ Contains(Lower(cols[j]), kw_weight) THEN "weight"
                    ELSE "none")}
    IN IF hits = {} THEN 0 ELSE CHOOSE a \in hits : \A b \in hits : b <= a

\* lines 1659-1660: the first column is dropped when it is 'Unnamed: 0'
DropUnnamed(cols) == IF cols # <<>> /\ cols[1] = c_Unnamed0 THEN Tail(cols) ELSE cols

\* headers of retailer sheets
RetailerHeaderPool == {
    <<W_Retailer, L_RetailerTarget, L_RetailerWeight>>,
    <<L_RetailerTarget, W_Target, W_Retailer, L_RetailerWeight>>,
    <<c_Unnamed0, W_Retailer, L_RetailerTarget, L_RetailerWeight>>,
    <<W_Retailer, W_Target, L_RetailerWeight>>,
    <<c_Notes, L_RetailerWeight, L_RetailerTarget>> }

\* lines 1599-1679: the retailer sheet is read and its columns are looked for
FindRetailerColumns ==
    /\ pc = "map_retailer"
    /\ \E h \in RetailerHeaderPool :
          /\ retailer_columns' = DropUnnamed(h)
          /\ retailer_name_col' = LastWhere(DropUnnamed(h), "name")
          /\ retailer_target_col' = LastWhere(DropUnnamed(h), "target")
          /\ retailer_weight_col' = LastWhere(DropUnnamed(h), "weight")
          /\ status_message' =
                IF /\ LastWhere(DropUnnamed(h), "name") # 0
                   /\ LastWhere(DropUnnamed(h), "target") # 0
                   /\ LastWhere(DropUnnamed(h), "weight") # 0
                THEN [kind |-> "retailer-level data applied", columns |-> <<>>]
                ELSE [kind |-> "retailer sheet format issue", columns |-> <<>>]
    /\ pc' = "map_save"
    /\ UNCHANGED <<setup_columns, map_i, target_col, metric_col, display_name_col, weight_col,
                   retailer_col, wt_returned, output_written, notMap>>

\* line 1599: no retailer sheet was given
NoRetailerSheet ==
    /\ pc = "map_retailer"
    /\ pc' = "map_save"
    /\ UNCHANGED <<mapVars, notMap>>

\* lines 2020-2082: the frame is saved and the function returns True
SaveOutput ==
    /\ pc = "map_save"
    /\ output_written' = TRUE
    /\ status_message' = [kind |-> "saved processed CSV", columns |-> <<>>]
    /\ wt_returned' = "True"
    /\ pc' = "map_done"
    /\ UNCHANGED <<setup_columns, map_i, target_col, metric_col, display_name_col, weight_col,
                   retailer_col, retailer_columns, retailer_name_col, retailer_target_col,
                   retailer_weight_col, notMap>>

---------------------------------------------------------------------------
(* Specification SpecMap: the column mapper on a bounded family of headers *)

MaxSetupCols == 4

SetupLabels == {W_Target, L_RetailerTarget, c_DisplayName, W_MetricName, W_MeasureWeights,
                W_Retailer, c_Notes}

\* headers: the labels of one sheet differ from one another
SetupHeaders ==
    UNION {{h \in [1..n -> SetupLabels] : \A a, b \in 1..n : h[a] = h[b] => a = b} :
              n \in 0..MaxSetupCols}

InitMap ==
    /\ pc = "map_loop"
    /\ setup_columns \in SetupHeaders
    /\ map_i = 0
    /\ target_col = 0
    /\ metric_col = 0
    /\ display_name_col = 0
    /\ weight_col = 0
    /\ retailer_col = 0
    /\ retailer_columns = <<>>
    /\ retailer_name_col = 0
    /\ retailer_target_col = 0
    /\ retailer_weight_col = 0
    /\ status_message = NoMessage
    /\ wt_returned = "pending"
    /\ output_written = FALSE
    /\ IdleNum
    /\ IdleHdr
    /\ IdleRead
    /\ IdleWT
    /\ IdleRuns
    /\ IdleAuto

NextMap ==
    \/ MapColumn \/ MapperFails \/ MapperDone \/ MissingMeasureConfig \/ ProcessRaises
    \/ PassesRan \/ FindRetailerColumns \/ NoRetailerSheet \/ SaveOutput

SpecMap == InitMap /\ [][NextMap]_vars

---------------------------------------------------------------------------
(* Claims C13, C17 and C18: the column mapper *)

HasLabel(labels) == \E j \in 1..Len(setup_columns) : setup_columns[j] \in labels

\* the setup sheet lacks a target column, a metric/display-name column or a
\* metric/measure weight column
LacksRequiredColumn ==
    \/ ~HasLabel({W_Target})
    \/ ~HasLabel({c_DisplayName, W_MetricName})
    \/ ~HasLabel({W_MeasureWeights})

PositionOf(cols, label) ==
    IF \E j \in 1..Len(cols) : cols[j] = label
    THEN CHOOSE j \in 1..Len(cols) : cols[j] = label
    ELSE 0

\* the loop over the setup columns has ended and lines 1331-1335 ran
MapperResolved == pc \in {"map_failed", "map_export", "map_retailer", "map_save", "map_done"}

\* C17: when the setup sheet has both a 'Display Name' column and a
\* 'Metric Name'/'Measure Name' column, the mapper takes the Display Name
\* column as the metric key, whichever of the two comes first.
C17_DisplayNamePreferred ==
    (MapperResolved /\ HasLabel({c_DisplayName}) /\ HasLabel({W_MetricName})) =>
        metric_col = PositionOf(setup_columns, c_DisplayName)

\* the mapping is complete on a sheet where Metric Name comes before Display Name
C17_Witness ==
    /\ pc = "map_export"
    /\ PositionOf(setup_columns, W_MetricName) # 0
    /\ PositionOf(setup_columns, W_MetricName) < PositionOf(setup_columns, c_DisplayName)
    /\ metric_col = PositionOf(setup_columns, c_DisplayName)

\* C18: a header cell that holds both 'retailer' and 'target' is never taken
\* as the generic target column, even when it comes before a 'Target' column;
\* in the retailer sheet it is taken as the retailer-target column.
C18_RetailerTargetNotGeneric ==
    /\ target_col # 0 => setup_columns[target_col] # L_RetailerTarget
    /\ (MapperResolved /\ HasLabel({W_Target})) =>
          target_col = PositionOf(setup_columns, W_Target)
    /\ PositionOf(retailer_columns, L_RetailerTarget) # 0 =>
          retailer_target_col = PositionOf(retailer_columns, L_RetailerTarget)

\* 'Retailer Target' comes before 'Target' in the setup sheet, and the
\* retailer sheet has a 'Retailer Target' column
C18_Witness ==
    /\ pc = "map_save"
    /\ PositionOf(setup_columns, L_RetailerTarget) # 0
    /\ PositionOf(setup_columns, L_RetailerTarget) < PositionOf(setup_columns, W_Target)
    /\ target_col = PositionOf(setup_columns, W_Target)
    /\ PositionOf(retailer_columns, L_RetailerTarget) # 0
    /\ retailer_target_col = PositionOf(retailer_columns, L_RetailerTarget)

---------------------------------------------------------------------------
(* Claim C14: a sheet without any of the schema labels *)

\* none of the three labels occurs in the first 5 rows of the sheet
NoSchemaLabel ==
    \A i \in 1..Len(df_temp(df_columns, df_rows)) :
        ~IsSchemaRow(df_temp(df_columns, df_rows)[i])

\* C14: when none of 'Measure Group', 'Grouping Name' and 'Scorecard Measure
\* Selection' occurs in the first 5 rows of the sheet, read_excel_data reports
\* a failure and emits no records.
C14_NoSchemaFails ==
    (ReadDone /\ NoSchemaLabel) => (returned = "None" /\ data = <<>>)

---------------------------------------------------------------------------
(* Claim C19: the positional reads of the plain layout *)

\* the plain layout without a 'Measure Group' column
PositionalLayout ==
    ~has_grouping_name /\ ~has_selection_column /\ ~HasCol(df_columns, c_MeasureGroup)

TextAt(row, j) == IF j <= Len(row) THEN TrimmedText(row[j]) ELSE <<>>

\* the row read from the four columns that start shift columns to the right
ShiftedRecord(row, shift) ==
    [measure_group |-> TextAt(row, shift + 1),
     standard_kpis |-> TextAt(row, shift + 2),
     measure_display_name |-> TextAt(row, shift + 3),
     definition |-> TextAt(row, shift + 4)]

HasMeasureGroup(r) == NonBlankText(r.measure_group)

\* the records of the file when every row is read with the same shift
FileRecords(shift) ==
    SelectSeq([k \in 1..Len(df_rows) |-> ShiftedRecord(df_rows[k], shift)], HasMeasureGroup)

\* the first column of the file is a header artifact: blank, '#REF!' or 'Unnamed'
FirstColumnIsArtifact ==
    \/ Contains(Lower(df_columns[1]), s_unnamed)
    \/ Lower(Strip(df_columns[1])) \in {<<>>, s_ref}

\* C19: in the plain layout without a 'Measure Group' column, every row of
\* the file is read one column to the right (columns 1,2,3,4) when the first
\* column is a header artifact, and every row is read from columns 0,1,2,3
\* otherwise.
C19_OneShiftPerFile ==
    (ReadDone /\ PositionalLayout) =>
        /\ returned = "data"
        /\ data = FileRecords(IF FirstColumnIsArtifact THEN 1 ELSE 0)

\* the same statement, with the shift of the file left open
C19_SomeShiftPerFile ==
    (ReadDone /\ PositionalLayout) =>
        /\ returned = "data"
        /\ \E shift \in {0, 1} : data = FileRecords(shift)

---------------------------------------------------------------------------
(* Claim C15: setup cells that are neither a number nor a percentage *)

UnparseableCells == {Str(v_abc), Str(w_pct), Str(w_1_2_3pct)}

\* the cell is treated as missing: the entry of the mapping has no value for it
UnparseableIsMissing ==
    \A i \in 1..Len(setup_df) :
        IsLastForKey(i) =>
            LET key == SetupEntry(setup_df[i], has_retailer_col).key IN
            /\ DictHas(MappingOf(i), key)
            /\ setup_df[i].target \in UnparseableCells
                  => IsBlank(DictGet(MappingOf(i), key).target)
            /\ setup_df[i].weight \in UnparseableCells
                  => IsBlank(DictGet(MappingOf(i), key).weight)

\* a row whose override has no target (weight) keeps the target (weight) of
\* the export file, or takes the default when that is blank
MissingOverrideLeavesRow ==
    \A k \in 1..Len(export_df) :
        IsMetricRow(k) =>
            /\ IsBlank(SetupOverride(k).val.target) =>
                  export_df[k].target =
                      IF IsBlank(export_file[k].target) THEN Num(50, 0)
                      ELSE export_file[k].target
            /\ IsBlank(SetupOverride(k).val.weight) =>
                  export_df[k].weight =
                      IF IsBlank(export_file[k].weight) THEN Num(1, 0)
                      ELSE export_file[k].weight

\* C15: a target or weight cell of the setup sheet that is neither a number
\* nor a percentage ('abc', '%', '1.2.3%') is treated as missing: it is never
\* written to an export row, the row takes the default 50 / 1.0 when its own
\* cell is blank, and the passes run to their end.
C15_UnparseableIsMissing ==
    /\ pc \in {"wt_metric", "wt_default", "wt_retailer", "wt_done"} => UnparseableIsMissing
    /\ \A k \in 1..Len(export_df) :
          /\ export_df[k].target \notin UnparseableCells
          /\ export_df[k].weight \notin UnparseableCells
    /\ pc \in {"wt_retailer", "wt_done"} => MissingOverrideLeavesRow

\* the same statement for the cells that float() rejects and that hold no '%'
C15_TextWithoutPercentIsMissing ==
    /\ pc \in {"wt_metric", "wt_default", "wt_retailer", "wt_done"} =>
          \A i \in 1..Len(setup_df) :
              IsLastForKey(i) =>
                  LET key == SetupEntry(setup_df[i], has_retailer_col).key IN
                  /\ setup_df[i].target = Str(v_abc)
                        => IsBlank(DictGet(MappingOf(i), key).target)
                  /\ setup_df[i].weight = Str(v_abc)
                        => IsBlank(DictGet(MappingOf(i), key).weight)
    /\ \A k \in 1..Len(export_df) :
          export_df[k].target # Str(v_abc) /\ export_df[k].weight # Str(v_abc)
    /\ pc \in {"wt_retailer", "wt_done"} => MissingOverrideLeavesRow

---------------------------------------------------------------------------
(* Claim C16: the lookup of the override of an export row *)

\* a name as the lookup compares it: trimmed, in lower case
NameOf(v) == Lower(TrimmedText(v))

\* the setup rows that name the metric of export row k
RowsOfMetric(k) ==
    {i \in 1..Len(setup_df) :
        /\ NonBlankText(TrimmedText(setup_df[i].metric))
        /\ NameOf(setup_df[i].metric) = NameOf(export_file[k].measure_config)}

\* among them, the rows of the retailer of export row k, and the rows of 'ALL'
RowsOfRetailer(k) ==
    {i \in RowsOfMetric(k) :
        /\ NameOf(setup_df[i].retailer) # w_all
        /\ NameOf(setup_df[i].retailer) = NameOf(export_file[k].retailer)}
RowsOfAll(k) == {i \in RowsOfMetric(k) : NameOf(setup_df[i].retailer) = w_all}

LastOf(S) == IF S = {} THEN 0 ELSE CHOOSE i \in S : \A j \in S : j <= i

\* the setup row whose values export row k takes, 0 when there is none
OverrideRow(k) ==
    IF has_retailer_col
    THEN IF RowsOfRetailer(k) # {} THEN LastOf(RowsOfRetailer(k)) ELSE LastOf(RowsOfAll(k))
    ELSE LastOf(RowsOfMetric(k))

\* the cell as the passes write it: the number of the cell, or the cell of
\* the export file when the setup cell gives none
Overridden(old, cell) ==
    IF IsBlank(extract_number(RawOrNone(cell))) THEN old ELSE extract_number(RawOrNone(cell))

\* C16: with a retailer column in the setup sheet, the override of an export
\* row is the entry of (the row's retailer, the metric) and, only when there
\* is none, the 'ALL' entry of the metric; without a retailer column it is
\* the entry of the metric alone; names are compared without regard to case,
\* and of the setup rows with the same key the last one wins.
C16_LookupOrder ==
    pc = "wt_default" =>
        \A k \in 1..Len(export_df) :
            metric_mask(export_file[k]) =>
                IF OverrideRow(k) = 0 THEN export_df[k] = export_file[k]
                ELSE /\ export_df[k].target =
                           Overridden(export_file[k].target, setup_df[OverrideRow(k)].target)
                     /\ export_df[k].weight =
                           Overridden(export_file[k].weight, setup_df[OverrideRow(k)].weight)

\* after the metric pass on a sheet with a retailer column that has an entry
\* of the row's retailer and an 'ALL' entry for the metric: the row took the
\* first, whose metric name is written in another case
C16_Witness ==
    /\ pc = "wt_default"
    /\ has_retailer_col
    /\ \E k \in 1..Len(export_df) :
          /\ metric_mask(export_file[k])
          /\ RowsOfRetailer(k) # {}
          /\ RowsOfAll(k) # {}
          /\ setup_df[OverrideRow(k)].metric # export_file[k].measure_config
          /\ export_file[k].target # Num(60, 0)
          /\ export_df[k].target = Num(60, 0)

\* only the 'ALL' entry exists for the metric, and the row took it
C16_AllFallback ==
    /\ pc = "wt_default"
    /\ has_retailer_col
    /\ \E k \in 1..Len(export_df) :
          /\ metric_mask(export_file[k])
          /\ RowsOfRetailer(k) = {}
          /\ RowsOfAll(k) # {}
          /\ export_df[k].target = Num(85, 0)

\* of two setup rows with the same key the last one gave the weight
C16_LastRowWins ==
    /\ pc = "wt_default"
    /\ ~has_retailer_col
    /\ \E k \in 1..Len(export_df) :
          /\ metric_mask(export_file[k])
          /\ Cardinality(RowsOfMetric(k)) > 1
          /\ export_file[k].weight = Num(2, 0)
          /\ export_df[k].weight = Zero

---------------------------------------------------------------------------
(* Specification SpecRuns: calls of read_excel_data and of the column      *)
(* mapper, one after another in the same process. The variables keep what  *)
(* the call before left in them; a call sets what its code sets.           *)

MaxRuns == 3

\* setup sheet headers of the calls
RunHeaders == {
    <<W_Target, W_MetricName, W_MeasureWeights>>,
    <<c_Notes, W_Target, c_DisplayName, W_MeasureWeights>>,
    <<W_Retailer, W_MetricName, W_Target, W_MeasureWeights>>,
    <<W_MetricName, W_Target>> }

\* measure sheets of the calls
RunSheets == {
    [cols |-> <<c_GroupingName, c_ClientName, c_InternalName2, c_Notes, c_MeasureOrder>>,
     rows |-> <<<<Str(v_A_sp), Str(v_d), Str(v_k), Str(v_k), Num(3, 0)>>>>],
    [cols |-> <<c_GroupingName, c_ClientName, c_InternalName2, c_Notes, c_MeasureOrder>>,
     rows |-> <<<<Str(v_A_sp), Str(v_d), Str(v_k), Str(v_k), Str(v_abc)>>>>],
    [cols |-> <<c_Selection, c_MeasureGroup, c_MeasureName, c_DisplayName, c_Definitions>>,
     rows |-> <<<<Bool(TRUE), Str(v_A_sp), Str(v_k), Str(v_d), Str(v_k)>>>>],
    [cols |-> <<c_Col, c_StandardKPIs, c_MeasureDisplayName, c_Definition>>,
     rows |-> <<<<NaNV, Str(v_k), Str(v_k), Str(v_k)>>,
                <<Str(v_A_sp), Str(v_k), Str(v_k), Str(v_k)>>>>] }

\* line 404: read_excel_data is called; df is read (lines 422-466)
StartReadRun ==
    /\ pc = "run_idle"
    /\ Len(runs) < MaxRuns
    /\ \E sheet \in RunSheets :
          /\ df_columns' = sheet.cols
          /\ df_rows' = sheet.rows
    /\ returned' = "pending"
    /\ pc' = "read_call"
    /\ UNCHANGED <<data, runs, numVars, hdrVars, wtVars, mapVars, autoVars>>

\* lines 516, 565, 605, 610: read_excel_data returns
EndReadRun ==
    /\ pc = "read_done"
    /\ runs' = Append(runs, [fn |-> "read_excel_data",
                             input |-> [cols |-> df_columns, rows |-> df_rows],
                             output |-> [returned |-> returned, records |-> data]])
    /\ pc' = "run_idle"
    /\ UNCHANGED <<readVars, numVars, hdrVars, wtVars, mapVars, autoVars>>

\* lines 1130 and 1271-1310: the setup sheet is read and the mapper's names are set to None
StartMapperRun ==
    /\ pc = "run_idle"
    /\ Len(runs) < MaxRuns
    /\ setup_columns' \in RunHeaders
    /\ map_i' = 0
    /\ target_col' = 0
    /\ metric_col' = 0
    /\ display_name_col' = 0
    /\ weight_col' = 0
    /\ retailer_col' = 0
    /\ status_message' = [kind |-> "reading exported file", columns |-> <<>>]
    /\ wt_returned' = "pending"
    /\ pc' = "map_loop"
    /\ UNCHANGED <<retailer_columns, retailer_name_col, retailer_target_col,
                   retailer_weight_col, output_written, runs, notMap>>

\* lines 1337-1346: the mapping the loop found, or the return of False
EndMapperRun ==
    /\ pc \in {"map_failed", "map_export"}
    /\ runs' = Append(runs, [fn |-> "column mapper",
                             input |-> setup_columns,
                             output |-> [target |-> target_col, metric |-> metric_col,
                                         weight |-> weight_col, retailer |-> retailer_col,
                                         returned |-> wt_returned]])
    /\ pc' = "run_idle"
    /\ UNCHANGED <<mapVars, numVars, hdrVars, readVars, wtVars, autoVars>>

InitRuns ==
    /\ pc = "run_idle"
    /\ IdleNum
    /\ IdleHdr
    /\ IdleRead
    /\ IdleWT
    /\ IdleMap
    /\ IdleRuns
    /\ IdleAuto

NextRuns ==
    \/ StartReadRun \/ ReadGroupingLayout \/ ReadSelectionLayout \/ ReadPlainLayout
    \/ EndReadRun
    \/ StartMapperRun \/ MapColumn \/ MapperFails \/ MapperDone \/ EndMapperRun

SpecRuns == InitRuns /\ [][NextRuns]_vars

---------------------------------------------------------------------------
(* Claim C20: the same input gives the same output *)

C20_MapperWitness ==
    /\ Len(runs) = 3
    /\ \A a \in 1..3 : runs[a].fn = "column mapper"
    /\ runs[1].input = runs[3].input
    /\ runs[1].output.retailer = 0
    /\ runs[2].output.retailer # 0
    /\ runs[3].output = runs[1].output

---------------------------------------------------------------------------
(* Claim C21: the retailer pass comes last *)

\* the row of the retailer sheet that gives the entry export row k takes
RetailerSheetRowOf(k) ==
    CHOOSE i \in 1..Len(retailer_df) :
        /\ IsLastRetailerRow(i)
        /\ Lower(StrOrEmpty(retailer_df[i].retailer)) = retailer_mapping[RetailerEntry(k)].key

\* the value a row has after the default pass when the metric pass left it alone
AfterDefaults(v, d) == IF IsBlank(v) THEN d ELSE v

\* the export rows the retailer filter takes
IsRetailerRow(k) == retailer_mask(export_file[k], export_file)

\* C21, as stated: after the three passes, every retailer row whose retailer
\* is matched in the retailer sheet holds the target and the weight of the
\* sheet, not the defaults 50 / 1.0, and every unmatched retailer row holds
\* the values it had after the default pass.
C21_RetailerValuesReplaceDefaults ==
    (pc = "wt_done" /\ retailer_file) =>
        \A k \in 1..Len(export_df) :
            IsRetailerRow(k) =>
                IF RetailerEntry(k) # 0
                THEN /\ export_df[k].target =
                           extract_number(RawOrNone(retailer_df[RetailerSheetRowOf(k)].target))
                     /\ export_df[k].weight =
                           extract_number(RawOrNone(retailer_df[RetailerSheetRowOf(k)].weight))
                     /\ export_df[k].target.t = "num"
                     /\ export_df[k].weight.t = "num"
                ELSE /\ export_df[k].target = AfterDefaults(export_file[k].target, Num(50, 0))
                     /\ export_df[k].weight = AfterDefaults(export_file[k].weight, Num(1, 0))

\* the cell of a matched row at the end: the number the retailer mapping read
\* from the sheet, or the value after the default pass when the sheet gives none
RetailerOrDefault(old, d, cell) ==
    IF RetailerValue(cell).t = "num" THEN RetailerValue(cell) ELSE AfterDefaults(old, d)

\* C21, amended: the passes run in the order metric overrides, defaults,
\* retailer overrides. A matched retailer row ends with the sheet's target
\* (weight) wherever the sheet gives a number, read as the retailer mapping
\* reads it, and not with the default; where the sheet's cell is blank the row
\* keeps the value it had after the default pass, as every unmatched retailer
\* row does.
C21_RetailerNumbersReplaceDefaults ==
    /\ (pc = "wt_done" /\ retailer_file) =>
          \A k \in 1..Len(export_df) :
              IsRetailerRow(k) =>
                  IF RetailerEntry(k) # 0
                  THEN /\ export_df[k].target =
                             RetailerOrDefault(export_file[k].target, Num(50, 0),
                                               retailer_df[RetailerSheetRowOf(k)].target)
                       /\ export_df[k].weight =
                             RetailerOrDefault(export_file[k].weight, Num(1, 0),
                                               retailer_df[RetailerSheetRowOf(k)].weight)
                  ELSE /\ export_df[k].target = AfterDefaults(export_file[k].target, Num(50, 0))
                       /\ export_df[k].weight = AfterDefaults(export_file[k].weight, Num(1, 0))
    /\ pc = "wt_retailer" =>
          \A k \in 1..Len(export_df) :
              IsRetailerRow(k) =>
                  /\ export_df[k].target = AfterDefaults(export_file[k].target, Num(50, 0))
                  /\ export_df[k].weight = AfterDefaults(export_file[k].weight, Num(1, 0))

\* at the end: a matched retailer row whose target was blank in the export
\* file, and so 50 after the default pass, holds the 85 of the retailer sheet
C21_Witness ==
    /\ pc = "wt_done"
    /\ retailer_file
    /\ \E k \in 1..Len(export_df) :
          /\ IsRetailerRow(k)
          /\ RetailerEntry(k) # 0
          /\ IsBlank(export_file[k].target)
          /\ retailer_df[RetailerSheetRowOf(k)].target = Num(85, 0)
          /\ export_df[k].target = Num(85, 0)

\* at the end: a retailer row that the retailer sheet does not name holds the defaults
C21_UnmatchedKeepsDefaults ==
    /\ pc = "wt_done"
    /\ retailer_file
    /\ \E k \in 1..Len(export_df) :
          /\ IsRetailerRow(k)
          /\ RetailerEntry(k) = 0
          /\ export_df[k].target = Num(50, 0)

---------------------------------------------------------------------------
(* Claim C22: what the passes leave alone *)

\* the metric filter: the given scorecard, retailer, brand and measure_group
\* blank, measure_config not blank
PassesMetricFilter(row) ==
    /\ row.scorecard = Str(w_S)
    /\ IsBlank(row.retailer)
    /\ IsBlank(row.brand)
    /\ IsBlank(row.measure_group)
    /\ ~IsBlank(row.measure_config)

\* the row without its target and its weight
OtherColumns(row) == [row EXCEPT !.target = NaNV, !.weight = NaNV]

\* C22: the metric pass writes only to rows that pass the metric filter:
\* every other row has the target and the weight of the export file when the
\* pass has run; and no pass adds, removes or reorders rows or changes a
\* column other than target and weight.
C22_MetricPassFrame ==
    /\ pc = "wt_default" =>
          \A k \in 1..Len(export_df) :
              ~PassesMetricFilter(export_file[k]) =>
                  /\ export_df[k].target = export_file[k].target
                  /\ export_df[k].weight = export_file[k].weight
    /\ pc \in {"wt_setup", "wt_metric", "wt_default", "wt_retailer", "wt_done"} =>
          /\ Len(export_df) = Len(export_file)
          /\ \A k \in 1..Len(export_df) :
                OtherColumns(export_df[k]) = OtherColumns(export_file[k])

\* after the metric pass: a row of another brand names a metric of the setup
\* sheet and has the target of the export file, while a row that passes the
\* filter took the target of the setup sheet for the same metric
C22_Witness ==
    /\ pc = "wt_default"
    /\ \E k, j \in 1..Len(export_df) :
          /\ ~PassesMetricFilter(export_file[k])
          /\ ~IsBlank(export_file[k].brand)
          /\ PassesMetricFilter(export_file[j])
          /\ export_file[k].measure_config = export_file[j].measure_config
          /\ export_df[j].target # export_file[j].target
          /\ export_df[k].target = export_file[k].target
          /\ export_df[k].target # export_df[j].target

---------------------------------------------------------------------------
(* The step tracker: track_step, complete_phase, execute_with_monitoring    *)
(* (lines 178-254).  A step entry keeps step_name and status; the entry's   *)
(* timestamp, message, details and error are written and never read by the  *)
(* code that sets a phase's status.  The list "steps" of a phase is kept as *)
(* the set of its entries: line 219 reads whether every entry is 'success'  *)
(* or 'skipped', and nothing reads their order or how often one occurs.     *)

\* the statuses the callers of track_step pass (line 185)
Statuses == {"success", "failed", "skipped", "in_progress"}

\* a variant of line 219 with any() for all()
any_success(steps) == \E s \in steps : s.status \in {"success", "skipped"}

\* line 219: all(s["status"] in ["success", "skipped"] for s in ...["steps"])
all_success(steps) == \A s \in steps : s.status \in {"success", "skipped"}

\* lines 178-223, on the dictionary step_tracker["phases"]
track_step(phases, phase_name, step_name, status) ==
    LET created == IF phases[phase_name] = Absent
                   THEN [phases EXCEPT ![phase_name] =
                            [status |-> "in_progress", steps |-> {}]]
                   ELSE phases
        appended == [created EXCEPT ![phase_name].steps =
                        @ \cup {[step_name |-> step_name, status |-> status]}]
    IN  IF status = "failed"
        THEN [appended EXCEPT ![phase_name].status = "failed"]
        ELSE IF /\ status = "success"
                /\ appended[phase_name].status = "in_progress"
                /\ all_success(appended[phase_name].steps)
        THEN [appended EXCEPT ![phase_name].status = "success"]
        ELSE appended

\* lines 225-230
complete_phase(phases, phase_name, status) ==
    IF phases[phase_name] # Absent
    THEN [phases EXCEPT ![phase_name].status = status]
    ELSE phases

\* the steps the tracker holds, over all phases
RECURSIVE StepCount(_, _)
StepCount(phases, names) ==
    IF names = {} THEN 0
    ELSE LET p == CHOOSE x \in names : TRUE
         IN  Cardinality(phases[p].steps) + StepCount(phases, names \ {p})

\* the entries the calls of one behaviour may record
MaxSteps == 4

\* the phases and steps the calls of the tracker's own specification name
TrackPhases == {"Phase 1", "Phase 2"}

TrackSteps == {"Export Template", "Import CSV"}

\* lines 49-58: init_step_tracker
InitStepTracker ==
    /\ pc = "track"
    /\ step_tracker # NoPhases
    /\ step_tracker' = NoPhases
    /\ UNCHANGED <<pc, running, continue_automation_flag, thread, response, notAuto>>

\* lines 178-223: one call of track_step
TrackStep(phase_name, step_name, status) ==
    /\ pc = "track"
    /\ StepCount(step_tracker, PhaseNames) < MaxSteps
    /\ step_tracker' = track_step(step_tracker, phase_name, step_name, status)
    /\ UNCHANGED <<pc, running, continue_automation_flag, thread, response, notAuto>>

\* lines 232-254: execute_with_monitoring, func returning (ok) or raising
ExecuteWithMonitoring(phase_name, step_name, ok) ==
    /\ pc = "track"
    /\ StepCount(step_tracker, PhaseNames) + 1 < MaxSteps
    /\ step_tracker' =
         track_step(track_step(step_tracker, phase_name, step_name, "in_progress"),
                    phase_name, step_name, IF ok THEN "success" ELSE "failed")
    /\ UNCHANGED <<pc, running, continue_automation_flag, thread, response, notAuto>>

InitTrack ==
    /\ pc = "track"
    /\ IdleNum
    /\ IdleHdr
    /\ IdleRead
    /\ IdleWT
    /\ IdleMap
    /\ IdleRuns
    /\ IdleAuto

NextTrack ==
    \/ InitStepTracker
    \/ \E p \in TrackPhases, s \in TrackSteps, st \in Statuses : TrackStep(p, s, st)
    \/ \E p \in TrackPhases, s \in TrackSteps, ok \in BOOLEAN : ExecuteWithMonitoring(p, s, ok)

SpecTrack == InitTrack /\ [][NextTrack]_vars

\* the status the phase has when track_step reaches line 215: a phase the call
\* created has the 'in_progress' of line 198
StatusBefore(phase) == IF phase = Absent THEN "in_progress" ELSE phase.status

\* what one call track_step(p, s, st) may do to the phase p, as the claim lists it
AllowedTransition(old, new, st) ==
    /\ new # Absent
    /\ st = "failed" => new.status = "failed"
    /\ StatusBefore(old) = "failed" => new.status = "failed"
    /\ new.status # StatusBefore(old) =>
         \/ st = "failed" /\ new.status = "failed"
         \/ /\ StatusBefore(old) = "in_progress"
            /\ new.status = "success"
            /\ st = "success"
            /\ \A s \in new.steps : s.status \in {"success", "skipped"}

\* C26: under track_step alone a phase's status changes in these ways only: a
\* phase the call creates starts 'in_progress'; a step tracked 'failed' sets
\* the phase to 'failed'; the phase goes from 'in_progress' to 'success' only
\* when the tracked step is 'success' and every step recorded in the phase so
\* far is 'success' or 'skipped'; a 'failed' phase stays 'failed'; no other
\* phase is touched.
C26_TrackStepTransitions ==
    [][\A p \in TrackPhases, s \in TrackSteps, st \in Statuses :
         TrackStep(p, s, st) =>
            /\ AllowedTransition(step_tracker[p], step_tracker'[p], st)
            /\ \A q \in PhaseNames \ {p} : step_tracker'[q] = step_tracker[q]]_vars

\* C26 witness: a phase that is 'failed' and holds a 'success' step, and
\* another phase that track_step moved to 'success' over a 'skipped' step
C26_Witness ==
    /\ step_tracker["Phase 2"].status = "failed"
    /\ \E s \in step_tracker["Phase 2"].steps : s.status = "success"
    /\ step_tracker["Phase 1"].status = "success"
    /\ \E s \in step_tracker["Phase 1"].steps : s.status = "skipped"

\* a phase whose step was run by execute_with_monitoring stays 'in_progress'
\* after the step's 'success': the wrapper's own 'in_progress' entry is one of
\* the steps line 219 looks at
C26_MonitoredStepStaysInProgress ==
    /\ step_tracker["Phase 1"].status = "in_progress"
    /\ step_tracker["Phase 1"].steps =
         {[step_name |-> "Import CSV", status |-> "in_progress"],
          [step_name |-> "Import CSV", status |-> "success"]}

---------------------------------------------------------------------------
(* The web handlers and the automation thread: start_automation (lines      *)
(* 6546-6583), continue_automation (lines 6585-6591) and run_automation     *)
(* (lines 4505-6539).  Each thread of the model is one call of              *)
(* run_automation; an action is the code between two points where the       *)
(* thread reads or writes what the handlers and the other threads share     *)
(* (automation_status["running"], continue_automation_flag, step_tracker)   *)
(* or waits for the browser.                                                *)

\* line 4740: range(30)
LoginPolls == 30

\* the forms POST /start_automation is sent: scorecard_type, and whether every
\* required field of lines 6559-6571 is present
Forms == [scorecard_type : {"Competitor", "Enterprise"}, complete : BOOLEAN]

\* a thread that run_automation is running in
Active(t) == thread[t].at \notin {"none", "done"}

\* the calls of track_step an action makes, in order, each <<phase, step, status>>
RECURSIVE TrackAll(_, _)
TrackAll(phases, calls) ==
    IF calls = <<>> THEN phases
    ELSE TrackAll(track_step(phases, calls[1][1], calls[1][2], calls[1][3]), Tail(calls))

PhasesOf(calls) == {calls[i][1] : i \in 1..Len(calls)}

\* the thread's record after it made the calls and moved to the position
Moved(t, at, calls) ==
    [thread[t] EXCEPT !.at = at, !.tracked = @ \cup PhasesOf(calls)]

\* lines 6546-6583: POST /start_automation
StartAutomation(form_data) ==
    /\ pc = "auto"
    /\ IF running
       THEN /\ response' = "Automation is already running"
            /\ UNCHANGED thread
       ELSE IF ~form_data.complete
       THEN /\ response' = "Missing required field"
            /\ UNCHANGED thread
       ELSE /\ \E t \in Threads : thread[t].at = "none"
            /\ LET t == CHOOSE x \in Threads :
                          /\ thread[x].at = "none"
                          /\ \A y \in Threads : thread[y].at = "none" => x <= y
               IN  thread' = [thread EXCEPT ![t] =
                                 [@ EXCEPT !.at = "started",
                                           !.scorecard_type = form_data.scorecard_type]]
            /\ response' = "Automation started"
    /\ UNCHANGED <<pc, running, continue_automation_flag, step_tracker, notAuto>>

\* lines 6585-6591: POST /continue_automation
ContinueAutomation ==
    /\ pc = "auto"
    /\ continue_automation_flag' = TRUE
    /\ thread' = [t \in Threads |->
                    IF thread[t].at = "login_wait"
                    THEN [thread[t] EXCEPT !.continued = TRUE]
                    ELSE thread[t]]
    /\ UNCHANGED <<pc, running, step_tracker, response, notAuto>>

\* The first thread is followed to its end.  A thread started later is
\* followed from its start to the clear() of line 4737 and through its early
\* exits: these are the steps in which it writes what the first thread reads
\* (running, the flag, the tracker's reset).
FollowedLater == {"started", "try", "browser", "except", "finally"}

\* the thread is at the position, and the model follows it there
At(t, position) == thread[t].at = position /\ (t = 1 \/ position \in FollowedLater)

\* lines 4508-4553: the tracker is reset, the run is tracked, and the run ends
\* when the Excel file does not exist
BeginRun(t, excel_exists) ==
    /\ pc = "auto"
    /\ At(t, "started")
    /\ LET calls == <<<<"Initialization", "Automation Started", "in_progress">>>>
       IN  /\ step_tracker' = TrackAll(NoPhases, calls)
           /\ IF excel_exists
              THEN /\ thread' = [thread EXCEPT ![t] = Moved(t, "try", calls)]
                   /\ UNCHANGED running
              ELSE /\ thread' = [thread EXCEPT ![t] =
                                    [Moved(t, "done", calls) EXCEPT !.exit = "excel_missing"]]
                   /\ running' = FALSE
    /\ UNCHANGED <<pc, continue_automation_flag, response, notAuto>>

\* lines 4555-4556
EnterTry(t) ==
    /\ pc = "auto"
    /\ At(t, "try")
    /\ running' = TRUE
    /\ thread' = [thread EXCEPT ![t].at = "browser"]
    /\ UNCHANGED <<pc, continue_automation_flag, step_tracker, response, notAuto>>

\* lines 4559-4737: Chrome starts, the Excel file is read, the login page
\* opens and the flag is cleared.  outcome: "opened"; "browser_failed" (the
\* return of line 4707); "excel_unreadable" (the return of line 4718);
\* "navigate_raised" (driver.get raises and line 4733 raises it again)
OpenLoginPage(t, outcome) ==
    /\ pc = "auto"
    /\ At(t, "browser")
    /\ LET browser == <<<<"Initialization", "Browser Setup", "in_progress">>,
                        <<"Initialization", "Browser Setup",
                          IF outcome = "browser_failed" THEN "failed" ELSE "success">>>>
           excel == <<<<"Initialization", "Read Excel File", "in_progress">>,
                      <<"Initialization", "Read Excel File",
                        IF outcome = "excel_unreadable" THEN "failed" ELSE "success">>>>
           page == <<<<"Phase 1", "Navigate to Login Page", "in_progress">>,
                     <<"Phase 1", "Navigate to Login Page",
                       IF outcome = "navigate_raised" THEN "failed" ELSE "success">>>>
           calls == IF outcome = "browser_failed" THEN browser
                    ELSE IF outcome = "excel_unreadable" THEN browser \o excel
                    ELSE IF outcome = "navigate_raised" THEN browser \o excel \o page
                    ELSE browser \o excel \o page
                         \o <<<<"Phase 1", "Manual Login", "in_progress">>>>
       IN  /\ step_tracker' = TrackAll(step_tracker, calls)
           /\ thread' = [thread EXCEPT ![t] =
                IF outcome = "opened"
                THEN [Moved(t, "login_wait", calls) EXCEPT !.polls = 0, !.continued = FALSE]
                ELSE IF outcome = "navigate_raised" THEN Moved(t, "except", calls)
                ELSE [Moved(t, "finally", calls) EXCEPT !.exit = outcome]]
           /\ continue_automation_flag' =
                IF outcome = "opened" THEN FALSE ELSE continue_automation_flag
    /\ UNCHANGED <<pc, running, response, notAuto>>

\* lines 4740-4743: one turn of the loop: the flag is tested, and when it is
\* clear the thread sleeps a second; after the last sleep the loop is over.
\* polls and continued describe the wait and are forgotten when it is over.
LoginPoll(t) ==
    /\ pc = "auto"
    /\ At(t, "login_wait")
    /\ thread[t].polls < LoginPolls
    /\ thread' = [thread EXCEPT ![t] =
         IF continue_automation_flag \/ thread[t].polls + 1 = LoginPolls
         THEN [@ EXCEPT !.at = "login_done", !.polls = 0, !.continued = FALSE]
         ELSE [@ EXCEPT !.polls = @ + 1]]
    /\ UNCHANGED <<pc, running, continue_automation_flag, step_tracker, response, notAuto>>

\* lines 4745-5716: the client is searched and selected and the scorecard is
\* opened.  outcome: "selected"; "no_element" (a return of lines 4756, 4766);
\* "no_client" (the raise of line 5097); "no_link" (a return of lines
\* 5128-5230, after Phase 1 is complete)
SelectClient(t, outcome) ==
    /\ pc = "auto"
    /\ At(t, "login_done")
    /\ LET head == <<<<"Phase 1", "Manual Login", "success">>,
                     <<"Phase 1", "Search for Client", "in_progress">>>>
           calls == IF outcome = "no_element" THEN head
                    ELSE IF outcome = "no_client"
                    THEN Append(head, <<"Phase 1", "Search for Client", "failed">>)
                    ELSE Append(head, <<"Phase 1", "Search for Client", "success">>)
           tracked == TrackAll(step_tracker, calls)
       IN  /\ step_tracker' = IF outcome \in {"selected", "no_link"}
                              THEN complete_phase(tracked, "Phase 1", "success")
                              ELSE tracked
           /\ thread' = [thread EXCEPT ![t] =
                IF outcome = "selected" THEN Moved(t, "phase2", calls)
                ELSE IF outcome = "no_client" THEN Moved(t, "except", calls)
                ELSE [Moved(t, "finally", calls) EXCEPT !.exit = "element_missing"]]
    /\ UNCHANGED <<pc, running, continue_automation_flag, response, notAuto>>

\* lines 5717-5769 and 5989-6003: Phase 2 starts; without a setup sheet that
\* exists the block is over (setup_sheet: "none", "missing" or "exists")
StartPhase2(t, setup_sheet) ==
    /\ pc = "auto"
    /\ At(t, "phase2")
    /\ LET head == <<<<"Phase 2", "Start Phase 2", "in_progress">>>>
           calls == IF setup_sheet = "exists"
                    THEN Append(head, <<"Phase 2", "Export Template", "in_progress">>)
                    ELSE head
           tracked == TrackAll(step_tracker, calls)
       IN  /\ step_tracker' = tracked
           /\ thread' = [thread EXCEPT ![t] =
                Moved(t, IF setup_sheet = "exists" THEN "export" ELSE "phase2_end", calls)]
    /\ UNCHANGED <<pc, running, continue_automation_flag, response, notAuto>>

\* lines 5771-5781 and 5986-5988: export_weights_targets_template returned
ExportTemplate(t, ok) ==
    /\ pc = "auto"
    /\ At(t, "export")
    /\ IF ok
       THEN LET calls == <<<<"Phase 2", "Export Template", "success">>,
                           <<"Phase 2", "Wait for Download", "in_progress">>>>
            IN  /\ step_tracker' = TrackAll(step_tracker, calls)
                /\ thread' = [thread EXCEPT ![t] =
                     [Moved(t, "download", calls) EXCEPT !.export_result = "True"]]
       ELSE LET calls == <<<<"Phase 2", "Export Template", "failed">>>>
            IN  /\ step_tracker' = TrackAll(step_tracker, calls)
                /\ thread' = [thread EXCEPT ![t] =
                     [Moved(t, "phase2_end", calls) EXCEPT !.export_result = "False"]]
    /\ UNCHANGED <<pc, running, continue_automation_flag, response, notAuto>>

\* lines 5785-5881 and 5982-5984: the download.  found: "job" (line 5785 gave
\* a file), "fallback" (the search of lines 5793-5863 gave one) or "None";
\* exists: os.path.exists(downloaded_file) of line 5867
WaitForDownload(t, found, exists) ==
    /\ pc = "auto"
    /\ At(t, "download")
    /\ found = "None" => exists = FALSE
    /\ LET first == IF found = "job"
                    THEN <<<<"Phase 2", "Wait for Download", "success">>>>
                    ELSE IF found = "fallback"
                    THEN <<<<"Phase 2", "Wait for Download", "in_progress">>,
                           <<"Phase 2", "Wait for Download", "success">>>>
                    ELSE <<<<"Phase 2", "Wait for Download", "in_progress">>>>
           checked == IF found # "None" /\ ~exists
                      THEN Append(first, <<"Phase 2", "Wait for Download", "failed">>)
                      ELSE first
           calls == IF found # "None" /\ exists
                    THEN Append(checked, <<"Phase 2", "Process File", "in_progress">>)
                    ELSE Append(checked, <<"Phase 2", "Wait for Download", "failed">>)
           tracked == TrackAll(step_tracker, calls)
           locals == [Moved(t, IF found # "None" /\ exists THEN "process" ELSE "phase2_end",
                            calls)
                        EXCEPT !.downloaded_file = found,
                               !.file_exists = IF found = "None" THEN "none"
                                               ELSE IF exists THEN "True" ELSE "False"]
       IN  /\ step_tracker' = tracked
           /\ thread' = [thread EXCEPT ![t] = locals]
    /\ UNCHANGED <<pc, running, continue_automation_flag, response, notAuto>>

\* a variant of lines 5901 and 5909 without the test of line 5909
ProcessReturnedTrue(process_result, output) == process_result = "True"

\* lines 5901 and 5909: process_result, and os.path.exists(output_csv_path)
OutputReady(process_result, output) == process_result = "True" /\ output

\* lines 5899-5914 and 5961-5979: process_weights_targets_file returned
\* ("True", "False") or raised ("raised"); output: the output CSV exists
ProcessFile(t, process_result, output) ==
    /\ pc = "auto"
    /\ At(t, "process")
    /\ LET ready == OutputReady(process_result, output)
           calls == IF process_result = "True"
                    THEN IF ready
                         THEN <<<<"Phase 2", "Process File", "success">>,
                                <<"Phase 2", "Import CSV", "in_progress">>>>
                         ELSE <<<<"Phase 2", "Process File", "success">>,
                                <<"Phase 2", "Process File", "failed">>>>
                    ELSE <<<<"Phase 2", "Process File", "failed">>>>
           locals == [Moved(t, IF ready THEN "import" ELSE "phase2_end", calls)
                        EXCEPT !.process_result = process_result,
                               !.output_exists = IF process_result # "True" THEN "none"
                                                 ELSE IF output THEN "True" ELSE "False"]
       IN  /\ step_tracker' = TrackAll(step_tracker, calls)
           /\ thread' = [thread EXCEPT ![t] = locals]
    /\ UNCHANGED <<pc, running, continue_automation_flag, response, notAuto>>

\* lines 5927-5960: import_weights_targets_csv is called and returns
\* ("True", "False") or raises ("raised")
ImportCsv(t, import_result) ==
    /\ pc = "auto"
    /\ At(t, "import")
    /\ LET calls == <<<<"Phase 2", "Import CSV",
                        IF import_result = "True" THEN "success" ELSE "failed">>>>
       IN  /\ step_tracker' = TrackAll(step_tracker, calls)
           /\ thread' = [thread EXCEPT ![t] =
                [Moved(t, "phase2_end", calls) EXCEPT !.import_called = TRUE]]
    /\ UNCHANGED <<pc, running, continue_automation_flag, response, notAuto>>

\* line 6005: complete_phase("Phase 2", "success"), after the messages and
\* prints that follow the block's last call of track_step
CompletePhase2(t) ==
    /\ pc = "auto"
    /\ At(t, "phase2_end")
    /\ step_tracker' = complete_phase(step_tracker, "Phase 2", "success")
    /\ thread' = [thread EXCEPT ![t].at = "phase3a"]
    /\ UNCHANGED <<pc, running, continue_automation_flag, response, notAuto>>

\* the names of lines 5771-5928 are not read after line 6005
AfterPhase2(locals) ==
    [locals EXCEPT !.export_result = "none", !.downloaded_file = "none",
                   !.file_exists = "none", !.process_result = "none",
                   !.output_exists = "none", !.import_called = FALSE]

\* a variant of line 6053 that never takes the early exit
StopsNever(scorecard_type) == FALSE

\* line 6053
StopsAfterPhase3a(scorecard_type) == scorecard_type = "Competitor"

\* lines 6009-6085: Phase 3a, whose failures are caught (lines 6041-6047); a
\* Competitor run writes running and goes on to close the browser and return
Phase3a(t) ==
    /\ pc = "auto"
    /\ At(t, "phase3a")
    /\ IF StopsAfterPhase3a(thread[t].scorecard_type)
       THEN LET calls == <<<<"Finalization", "Automation Complete", "success">>>>
            IN  /\ step_tracker' = TrackAll(step_tracker, calls)
                /\ thread' = [thread EXCEPT ![t] =
                     [AfterPhase2(Moved(t, "finally", calls)) EXCEPT !.exit = "competitor"]]
                /\ running' = FALSE
       ELSE /\ thread' = [thread EXCEPT ![t] = AfterPhase2(Moved(t, "phase4", <<>>))]
            /\ UNCHANGED <<step_tracker, running>>
    /\ UNCHANGED <<pc, continue_automation_flag, response, notAuto>>

\* lines 6093-6525: Phase 4, then Phase 5 and Phase 7, whose failures are
\* caught (lines 6230, 6320, 6451), and the end of the run.  outcome, of
\* Phase 4: "skipped" (no path given), "imported", "failed" (file not found)
LaterPhases(t, outcome) ==
    /\ pc = "auto"
    /\ At(t, "phase4")
    /\ LET head == <<<<"Phase 4", "Start Phase 4", "in_progress">>>>
           calls == IF outcome = "skipped"
                    THEN Append(head, <<"Phase 4", "Start Phase 4", "skipped">>)
                    ELSE IF outcome = "failed"
                    THEN head \o <<<<"Phase 4", "Start Phase 4", "success">>,
                                   <<"Phase 4", "Resolve File Path", "in_progress">>,
                                   <<"Phase 4", "Resolve File Path", "failed">>>>
                    ELSE head \o <<<<"Phase 4", "Start Phase 4", "success">>,
                                   <<"Phase 4", "Resolve File Path", "in_progress">>,
                                   <<"Phase 4", "Resolve File Path", "success">>,
                                   <<"Phase 4", "Process File", "in_progress">>,
                                   <<"Phase 4", "Process File", "success">>,
                                   <<"Phase 4", "Import CSV", "in_progress">>,
                                   <<"Phase 4", "Import CSV", "success">>>>
           last == <<<<"Finalization", "Automation Complete", "success">>>>
       IN  /\ step_tracker' =
                TrackAll(complete_phase(TrackAll(step_tracker, calls), "Phase 4",
                                        IF outcome = "imported" THEN "success" ELSE outcome),
                         last)
           /\ thread' = [thread EXCEPT ![t] =
                [Moved(t, "finally", calls \o last)
                   EXCEPT !.executed = {"Phase 4", "Phase 5", "Phase 7"},
                          !.exit = "completed"]]
    /\ UNCHANGED <<pc, running, continue_automation_flag, response, notAuto>>

\* the positions inside the try of line 4555 where a call can raise
InTry == {"browser", "login_wait", "login_done", "phase2", "export", "download",
          "process", "import", "phase4"}

\* a call outside the inner try blocks raises: control goes to line 6527
Raise(t) ==
    /\ pc = "auto"
    /\ \E position \in InTry : At(t, position)
    /\ thread' = [thread EXCEPT ![t] =
         [AfterPhase2(@) EXCEPT !.at = "except", !.polls = 0, !.continued = FALSE]]
    /\ UNCHANGED <<pc, running, continue_automation_flag, step_tracker, response, notAuto>>

\* lines 6527-6532
Except(t) ==
    /\ pc = "auto"
    /\ At(t, "except")
    /\ LET calls == <<<<"Finalization", "Automation Complete", "failed">>>>
       IN  /\ step_tracker' = TrackAll(step_tracker, calls)
           /\ thread' = [thread EXCEPT ![t] =
                [Moved(t, "finally", calls) EXCEPT !.exit = "exception"]]
    /\ UNCHANGED <<pc, running, continue_automation_flag, response, notAuto>>

\* a variant of lines 6533-6539 without line 6539
FinallyKeepsRunning(t) ==
    /\ pc = "auto"
    /\ At(t, "finally")
    /\ thread' = [thread EXCEPT ![t].at = "done"]
    /\ UNCHANGED <<pc, running, continue_automation_flag, step_tracker, response, notAuto>>

\* lines 6533-6539: the browser is closed and running is written
Finally(t) ==
    /\ pc = "auto"
    /\ At(t, "finally")
    /\ running' = FALSE
    /\ thread' = [thread EXCEPT ![t].at = "done"]
    /\ UNCHANGED <<pc, continue_automation_flag, step_tracker, response, notAuto>>

InitAuto ==
    /\ pc = "auto"
    /\ IdleNum
    /\ IdleHdr
    /\ IdleRead
    /\ IdleWT
    /\ IdleMap
    /\ IdleRuns
    /\ IdleAuto

NextAuto ==
    \/ \E form_data \in Forms : StartAutomation(form_data)
    \/ ContinueAutomation
    \/ \E t \in Threads :
         \/ \E excel_exists \in BOOLEAN : BeginRun(t, excel_exists)
         \/ EnterTry(t)
         \/ \E outcome \in {"opened", "browser_failed", "excel_unreadable",
                           "navigate_raised"} : OpenLoginPage(t, outcome)
         \/ LoginPoll(t)
         \/ \E outcome \in {"selected", "no_element", "no_client", "no_link"} :
               SelectClient(t, outcome)
         \/ \E setup_sheet \in {"none", "missing", "exists"} : StartPhase2(t, setup_sheet)
         \/ \E ok \in BOOLEAN : ExportTemplate(t, ok)
         \/ \E found \in {"job", "fallback", "None"}, exists \in BOOLEAN :
               WaitForDownload(t, found, exists)
         \/ \E process_result \in {"True", "False", "raised"}, output \in BOOLEAN :
               ProcessFile(t, process_result, output)
         \/ \E import_result \in {"True", "False", "raised"} : ImportCsv(t, import_result)
         \/ CompletePhase2(t)
         \/ Phase3a(t)
         \/ \E outcome \in {"skipped", "imported", "failed"} : LaterPhases(t, outcome)
         \/ Raise(t)
         \/ Except(t)
         \/ Finally(t)

SpecAuto == InitAuto /\ [][NextAuto]_vars

---------------------------------------------------------------------------
(* Claims about the handlers and the automation thread *)

\* C23: a POST /start_automation that arrives while a thread started by an
\* earlier request has not finished is answered 'Automation is already
\* running' and starts no thread.
C23_RequestDuringRunRejected ==
    [][\A form_data \in Forms :
         (StartAutomation(form_data) /\ \E t \in Threads : Active(t)) =>
            /\ response' = "Automation is already running"
            /\ thread' = thread]_vars

\* at most one thread is inside run_automation
C23_AtMostOneRun == Cardinality({t \in Threads : Active(t)}) <= 1

\* the second request came before the first thread reached line 4556
C23_StartedBeforeRunningSet ==
    /\ thread[1].at = "try"
    /\ thread[2].at = "started"
    /\ ~running

\* the second request came after line 6079 of a Competitor run and before the
\* run returned
C23_StartedDuringCompetitorExit ==
    /\ thread[1].at = "finally"
    /\ thread[1].exit = "competitor"
    /\ thread[2].at = "started"

\* what the claim says of one turn of the wait's loop: the turn that finds the
\* flag set after a continue request of this wait ends the wait; the last turn
\* ends the wait; a turn before the last ends the wait only after a continue
\* request of this wait
WaitTurn(t) ==
    /\ thread[t].continued => thread'[t].at = "login_done"
    /\ thread[t].polls + 1 = LoginPolls => thread'[t].at = "login_done"
    /\ (thread'[t].at = "login_done" /\ thread[t].polls + 1 < LoginPolls)
          => thread[t].continued

\* C24: the manual-login wait ends after at most 30 polls; it ends at the
\* first poll after /continue_automation set the flag during the wait; a
\* continue request from before the wait does not shorten it.
C24_WaitEndsOnContinue ==
    [][\A t \in Threads :
         /\ thread'[t].at = "login_wait" => thread'[t].polls < LoginPolls
         /\ LoginPoll(t) => WaitTurn(t)]_vars

\* the same for a wait during which no other thread was started
C24_WaitOfSingleRun ==
    [][\A t \in Threads :
         (LoginPoll(t) /\ \A u \in Threads \ {t} : thread[u].at = "none")
            => WaitTurn(t)]_vars

\* a wait that goes on although /continue_automation was called during it
C24_ContinueLost ==
    /\ thread[1].at = "login_wait"
    /\ thread[1].continued
    /\ ~continue_automation_flag
    /\ thread[2].at = "login_wait"

\* a wait that a continue request of the wait ended before the last poll
C24_EndedEarly ==
    /\ thread[1].at = "login_done"
    /\ continue_automation_flag
    /\ thread[2].at = "none"

\* C25: a run whose scorecard_type is 'Competitor' never enters Phase 4,
\* Phase 5 or Phase 7 and never tracks a step of them; from Phase 3a it goes
\* to its exit with running False, and running is False when it returns.
C25_CompetitorStopsAfterPhase3a ==
    [][\A t \in Threads :
         thread'[t].scorecard_type = "Competitor" =>
            /\ thread'[t].executed = {}
            /\ "Phase 4" \notin thread'[t].tracked
            /\ thread'[t].at # "phase4"
            /\ (thread[t].at = "phase3a" /\ thread'[t].at # "phase3a") =>
                  /\ thread'[t].at = "finally"
                  /\ thread'[t].exit = "competitor"
                  /\ ~running'
            /\ (thread[t].at # "done" /\ thread'[t].at = "done") => ~running']_vars

\* C25 witness: a Competitor run that returned through the exit of line 6085
C25_Witness ==
    /\ thread[1].scorecard_type = "Competitor"
    /\ thread[1].at = "done"
    /\ thread[1].exit = "competitor"
    /\ step_tracker["Phase 4"] = Absent
    /\ ~running

\* an Enterprise run goes on to the later phases
C25_EnterpriseGoesOn ==
    /\ thread[1].scorecard_type = "Enterprise"
    /\ thread[1].executed = {"Phase 4", "Phase 5", "Phase 7"}
    /\ thread[1].exit = "completed"

\* C27: a thread that returns from run_automation leaves running False,
\* whatever its exit, and running is False whenever no thread is inside
\* run_automation, so that the next POST /start_automation passes line 6551.
C27_ExitLeavesRunningFalse ==
    [][/\ \A t \in Threads :
            (thread[t].at # "done" /\ thread'[t].at = "done") => ~running'
       /\ (\A t \in Threads : thread'[t].at \in {"none", "done"}) => ~running']_vars

\* C27 witness: a run that ended in the handler of line 6527, and the request
\* after it accepted
C27_Witness ==
    /\ thread[1].at = "done"
    /\ thread[1].exit = "exception"
    /\ ~running
    /\ thread[2].at = "started"
    /\ response = "Automation started"

\* the exits of run_automation
Exits == {"excel_missing", "browser_failed", "excel_unreadable", "element_missing",
          "exception", "competitor", "completed"}

\* a thread that returned has one of the exits, and running was written
C27_ExitIsKnown ==
    \A t \in Threads : thread[t].at = "done" => thread[t].exit \in Exits

\* the import's conditions, as lines 5771-5909 found them
ImportConditions(locals) ==
    /\ locals.export_result = "True"
    /\ locals.downloaded_file \in {"job", "fallback"}
    /\ locals.file_exists = "True"
    /\ locals.process_result = "True"
    /\ locals.output_exists = "True"

\* a step of the block failed
StepFailed(locals) ==
    \/ locals.export_result = "False"
    \/ locals.downloaded_file = "None"
    \/ locals.file_exists = "False"
    \/ locals.process_result \in {"False", "raised"}
    \/ locals.output_exists = "False"

\* C28: import_weights_targets_csv is called only when the export returned
\* True, a downloaded file was found and exists, the processing returned True
\* and its output CSV exists; when one of these steps fails the import is not
\* called and the run goes on to Phase 3a.
C28_ImportOnlyAfterAllSteps ==
    [][\A t \in Threads :
         /\ (thread'[t].at = "import" \/ thread'[t].import_called)
               => ImportConditions(thread'[t])
         /\ StepFailed(thread'[t]) =>
               /\ ~thread'[t].import_called
               /\ thread'[t].at \in {"phase2_end", "phase3a"}
         /\ (thread[t].at = "phase2_end" /\ thread'[t].at # "phase2_end")
               => thread'[t].at = "phase3a"]_vars

\* C28 witness: the import ran on a file the fallback search found, and the
\* run is at Phase 3a
C28_Witness ==
    /\ thread[1].at = "phase3a"
    /\ thread[1].import_called
    /\ thread[1].downloaded_file = "fallback"

\* the processing raised, the import was skipped, and the run is at Phase 3a
C28_SkippedAfterFailure ==
    /\ thread[1].at = "phase3a"
    /\ thread[1].process_result = "raised"
    /\ ~thread[1].import_called

\* C29: whenever a run reaches the end of the Weights & Targets block,
\* line 6005 leaves 'Phase 2' with status 'success', whatever the block's
\* steps were tracked as.
C29_Phase2EndsSuccess ==
    [][\A t \in Threads :
         CompletePhase2(t) => step_tracker'["Phase 2"].status = "success"]_vars

\* the same for a run during which no other thread was started
C29_Phase2OfSingleRun ==
    [][\A t \in Threads :
         (CompletePhase2(t) /\ \A u \in Threads \ {t} : thread[u].at = "none")
            => step_tracker'["Phase 2"].status = "success"]_vars

\* line 6005 wrote 'success' over the 'failed' of a failed import
C29_SuccessOverFailed ==
    /\ thread[1].at = "phase3a"
    /\ thread[1].import_called
    /\ \E s \in step_tracker["Phase 2"].steps :
          s.step_name = "Import CSV" /\ s.status = "failed"
    /\ step_tracker["Phase 2"].status = "success"

\* the run is past line 6005 and the tracker has no 'Phase 2': the other
\* thread's init_step_tracker emptied it before line 6005
C29_Phase2Lost ==
    /\ thread[1].at = "phase3a"
    /\ step_tracker["Phase 2"] = Absent

===========================================================================
